---- MODULE Spec2Model ----
(***************************************************************************)
(* Row normalizer of bucket-list-gas (src/src/Code.js).                    *)
(*                                                                         *)
(* src/src/Code.js holds several revisions of the module one after the     *)
(* other.  Two of them carry the parser table and the cross-field pass:    *)
(*   revision "getTime"  lines   1..214  (compares instants by getTime)    *)
(*   revision "nowISO"   lines 216..436  (compares ISO strings)            *)
(* Both are modelled; the variable rev says which one a call runs.         *)
(* Spec is one call of convertSheetDataToObjects, SpecAge direct calls of    *)
(* calculateAge, SpecGet one call of doGet with the call of                *)
(* convertSheetDataToObjects it makes.                                     *)
(*                                                                         *)
(* Values.  A JavaScript value is a record [t, n, s]:                      *)
(*   t = "undefined" | "null" | "bool" | "num" | "str" | "date" |          *)
(*       "baddate" | "object" | "Boolean" | "Number" | "String" | "big"    *)
(*   n = the number (num), 1/0 (bool), the instant (date)                  *)
(*   s = the text (str), a sequence of one-character strings               *)
(* "object" is a fresh empty object; "Boolean", "Number" and "String" are  *)
(* the wrapper objects of a primitive (typeof "object").                   *)
(* Instants are whole days since 1970-01-01T00:00:00.000Z, so getTime() is *)
(* n * 86400000 ms; every modelled instant is midnight UTC.  The script    *)
(* runs in Asia/Tokyo (UTC+9, no DST), where midnight UTC is 09:00 of the  *)
(* same calendar day, so local and UTC calendar fields agree.              *)
(***************************************************************************)
EXTENDS Integers, Sequences, FiniteSets, TLC

----------------------------------------------------------------------------
(* Text *)

\* The characters the model uses, in UTF-16 code unit order.
Alphabet ==
  <<
     " ", "$", "(", ")", "+", "-", ".", "/", "0", "1", "2", "3", "4", "5",
     "6", "7", "8", "9", ":", "A", "B", "C", "D", "E", "F", "G", "H", "I",
     "J", "K", "L", "M", "N", "O", "P", "Q", "R", "S", "T", "U", "V", "W",
     "X", "Y", "Z", "_", "a", "b", "c", "d", "e", "f", "g", "h", "i", "j",
     "k", "l", "m", "n", "o", "p", "q", "r", "s", "t", "u", "v", "w", "x",
     "y", "z" >>

\* Rank of a character in code unit order (order-isomorphic to charCodeAt).
CharCode(c) == CHOOSE i \in 1..Len(Alphabet) : Alphabet[i] = c

Digits == << "0", "1", "2", "3", "4", "5", "6", "7", "8", "9" >>

IsDigit(c) == \E i \in 1..10 : Digits[i] = c

DigitVal(c) == (CHOOSE i \in 1..10 : Digits[i] = c) - 1

UpperCase ==
  <<
     "A", "B", "C", "D", "E", "F", "G", "H", "I", "J", "K", "L", "M", "N",
     "O", "P", "Q", "R", "S", "T", "U", "V", "W", "X", "Y", "Z" >>

LowerOfUpper ==
  <<
     "a", "b", "c", "d", "e", "f", "g", "h", "i", "j", "k", "l", "m", "n",
     "o", "p", "q", "r", "s", "t", "u", "v", "w", "x", "y", "z" >>

\* String.prototype.toLowerCase, one character.
LowerChar(c) ==
  IF \E i \in 1..Len(UpperCase) : UpperCase[i] = c
  THEN LowerOfUpper[CHOOSE i \in 1..Len(UpperCase) : UpperCase[i] = c]
  ELSE c

\* String.prototype.toLowerCase
ToLowerCase(s) == [i \in 1..Len(s) |-> LowerChar(s[i])]

IsSpace(c) == c = " "

RECURSIVE TrimStart(_)
TrimStart(s) ==
  IF s # << >> /\ IsSpace(Head(s)) THEN TrimStart(Tail(s)) ELSE s

RECURSIVE TrimEnd(_)
TrimEnd(s) ==
  IF s # << >> /\ IsSpace(s[Len(s)]) THEN TrimEnd(SubSeq(s, 1, Len(s) - 1)) ELSE s

\* String.prototype.trim
Trim(s) == TrimEnd(TrimStart(s))

\* String.prototype.startsWith
StartsWith(s, p) == Len(s) >= Len(p) /\ SubSeq(s, 1, Len(p)) = p

\* The relational operator > on two strings: code unit lexicographic order.
RECURSIVE StrGreater(_, _)
StrGreater(a, b) ==
  IF a = << >> THEN FALSE
  ELSE IF b = << >> THEN TRUE
  ELSE IF Head(a) # Head(b) THEN CharCode(Head(a)) > CharCode(Head(b))
  ELSE StrGreater(Tail(a), Tail(b))

\* Decimal digits of a natural number, most significant first.
RECURSIVE NatDigits(_)
NatDigits(k) ==
  IF k < 10 THEN << Digits[k + 1] >>
  ELSE NatDigits(k \div 10) \o << Digits[(k % 10) + 1] >>

\* Number::toString of an integer.
IntToString(k) == IF k < 0 THEN << "-" >> \o NatDigits(-k) ELSE NatDigits(k)

\* A natural number left-padded with zeros to w digits.
Pad(k, w) ==
  LET d == NatDigits(k) IN
  IF Len(d) >= w THEN d ELSE [i \in 1..w |-> IF i <= w - Len(d) THEN "0" ELSE d[i - (w - Len(d))]]

\* Value of a sequence of digit characters.
RECURSIVE DigitsVal(_)
DigitsVal(s) ==
  IF s = << >> THEN 0 ELSE DigitsVal(SubSeq(s, 1, Len(s) - 1)) * 10 + DigitVal(s[Len(s)])

AllDigits(s) == \A i \in 1..Len(s) : IsDigit(s[i])

----------------------------------------------------------------------------
(* JavaScript values *)

JsVal(t, n, s) == [t |-> t, n |-> n, s |-> s]

Undefined == JsVal("undefined", 0, << >>)

Null == JsVal("null", 0, << >>)

NaN == JsVal("nan", 0, << >>)

True == JsVal("bool", 1, << >>)

False == JsVal("bool", 0, << >>)

Num(k) == JsVal("num", k, << >>)

Str(s) == JsVal("str", 0, s)

\* The number d * 10^e with one significant digit d (signed) and e >= 21: a
\* double that Number::toString writes in exponent form.
Big(d, e) == JsVal("big", e, d)

\* A Date object holding the instant n.
DateObj(n) == JsVal("date", n, << >>)

\* A Date object whose time value is NaN.
InvalidDate == JsVal("baddate", 0, << >>)

\* ToBoolean
Truthy(v) ==
  CASE v.t = "undefined" -> FALSE
    [] v.t = "null" -> FALSE
    [] v.t = "nan" -> FALSE
    [] v.t = "bool" -> v.n = 1
    [] v.t = "num" -> v.n # 0
    [] v.t = "str" -> v.s # << >>
    [] OTHER -> TRUE

----------------------------------------------------------------------------
(* Calendar: proleptic Gregorian, days since 1970-01-01 *)

\* Days since the epoch of the civil date y-m-d (m in 1..12).
DaysFromCivil(y, m, d) ==
  LET yy == IF m <= 2 THEN y - 1 ELSE y
      era == yy \div 400
      yoe == yy - era * 400
      mp == IF m > 2 THEN m - 3 ELSE m + 9
      doy == (153 * mp + 2) \div 5 + d - 1
      doe == yoe * 365 + yoe \div 4 - yoe \div 100 + doy
  IN era * 146097 + doe - 719468

\* The civil date [y, m, d] (m in 1..12) of the day z since the epoch, in
\* stages: era and day of era, year of era, day of year, month index, month.
CivilOf(y, m, d) == [y |-> IF m <= 2 THEN y + 1 ELSE y, m |-> m, d |-> d]

CivilFromMp(y, doy, mp) ==
  CivilOf(y, IF mp < 10 THEN mp + 3 ELSE mp - 9, doy - (153 * mp + 2) \div 5 + 1)

CivilFromDoy(y, doy) == CivilFromMp(y, doy, (5 * doy + 2) \div 153)

CivilFromYoe(era, doe, yoe) ==
  CivilFromDoy(yoe + era * 400, doe - (365 * yoe + yoe \div 4 - yoe \div 100))

CivilFromDoe(era, doe) ==
  CivilFromYoe(era, doe, (doe - doe \div 1460 + doe \div 36524 - doe \div 146096) \div 365)

CivilFromDays(z) == CivilFromDoe((z + 719468) \div 146097, (z + 719468) % 146097)

\* Date.prototype.getFullYear / getMonth (0-based) / getDate / getDay
getFullYear(n) == CivilFromDays(n).y

getMonth(n) == CivilFromDays(n).m - 1

getDate(n) == CivilFromDays(n).d

getDay(n) == (n + 4) % 7

DayNames == << << "S", "u", "n" >>, << "M", "o", "n" >>, << "T", "u", "e" >>, << "W", "e", "d" >>, << "T", "h", "u" >>, << "F", "r", "i" >>, << "S", "a", "t" >> >>

MonthNames ==
  << << "J", "a", "n" >>, << "F", "e", "b" >>, << "M", "a", "r" >>, << "A", "p", "r" >>, << "M", "a", "y" >>, << "J", "u", "n" >>,
     << "J", "u", "l" >>, << "A", "u", "g" >>, << "S", "e", "p" >>, << "O", "c", "t" >>, << "N", "o", "v" >>, << "D", "e", "c" >> >>

\* The year of an ISO-8601 string: four digits, or a sign and six digits.
IsoYear(y) ==
  IF y >= 0 /\ y <= 9999 THEN Pad(y, 4)
  ELSE (IF y < 0 THEN << "-" >> ELSE << "+" >>) \o Pad(IF y < 0 THEN -y ELSE y, 6)

IsoTimeSuffix == << "T", "0", "0", ":", "0", "0", ":", "0", "0", ".", "0", "0", "0", "Z" >>

IsoOfCivil(c) ==
  IsoYear(c.y) \o << "-" >> \o Pad(c.m, 2) \o << "-" >> \o Pad(c.d, 2) \o IsoTimeSuffix

\* Date.prototype.toISOString of the instant n.
toISOString(n) == IsoOfCivil(CivilFromDays(n))

DateStringOfCivil(wd, c) ==
  DayNames[wd + 1] \o << " " >> \o MonthNames[c.m] \o << " " >> \o Pad(c.d, 2)
    \o << " " >> \o (IF c.y < 0 THEN << "-" >> \o Pad(-c.y, 4) ELSE Pad(c.y, 4))
    \o << " ", "0", "9", ":", "0", "0", ":", "0", "0", " ", "G", "M", "T", "+", "0", "9", "0", "0", " ", "(", "J", "a", "p", "a", "n", " ", "S", "t", "a", "n", "d", "a", "r", "d", " ", "T", "i", "m", "e", ")" >>

\* Date.prototype.toString of the instant n (09:00 in Asia/Tokyo).
DateToString(n) == DateStringOfCivil(getDay(n), CivilFromDays(n))

\* String(v)
String(v) ==
  CASE v.t = "undefined" -> << "u", "n", "d", "e", "f", "i", "n", "e", "d" >>
    [] v.t = "null" -> << "n", "u", "l", "l" >>
    [] v.t = "nan" -> << "N", "a", "N" >>
    [] v.t = "bool" -> (IF v.n = 1 THEN << "t", "r", "u", "e" >> ELSE << "f", "a", "l", "s", "e" >>)
    [] v.t = "num" -> IntToString(v.n)
    [] v.t = "big" -> v.s \o << "e", "+" >> \o NatDigits(v.n)
    [] v.t = "str" -> v.s
    [] v.t = "date" -> DateToString(v.n)
    [] v.t = "baddate" -> << "I", "n", "v", "a", "l", "i", "d", " ", "D", "a", "t", "e" >>

DaysInMonth(y, m) ==
  IF m = 2 THEN (IF (y % 4 = 0 /\ y % 100 # 0) \/ y % 400 = 0 THEN 29 ELSE 28)
  ELSE IF m \in {4, 6, 9, 11} THEN 30 ELSE 31

\* The time value of year y, month m, day d; NaN for a month or day out of range.
TimeOfFields(y, m, d) ==
  IF m >= 1 /\ m <= 12 /\ d >= 1 /\ d <= DaysInMonth(y, m)
  THEN [ok |-> TRUE, n |-> DaysFromCivil(y, m, d)]
  ELSE [ok |-> FALSE, n |-> 0]

\* The date part "MM-DD" (after the year and its dash) and what follows it.
ParseIsoRest(y, r) ==
  IF /\ Len(r) >= 5
     /\ IsDigit(r[1]) /\ IsDigit(r[2]) /\ r[3] = "-" /\ IsDigit(r[4]) /\ IsDigit(r[5])
     /\ (Len(r) = 5 \/ SubSeq(r, 6, Len(r)) = IsoTimeSuffix)
  THEN TimeOfFields(y, DigitsVal(SubSeq(r, 1, 2)), DigitsVal(SubSeq(r, 4, 5)))
  ELSE [ok |-> FALSE, n |-> 0]

\* new Date(string).getTime() for the ISO-8601 date and date-time forms
\* "YYYY-MM-DD", "YYYY-MM-DDT00:00:00.000Z" and their expanded-year forms
\* "+YYYYYY-..." / "-YYYYYY-..."; ok = FALSE is the time value NaN.  Every
\* other string the model feeds it starts with a letter, ":" or is empty,
\* for which the parser answers NaN.
DateParse(s) ==
  IF Len(s) >= 5 /\ AllDigits(SubSeq(s, 1, 4)) /\ s[5] = "-"
  THEN ParseIsoRest(DigitsVal(SubSeq(s, 1, 4)), SubSeq(s, 6, Len(s)))
  ELSE IF Len(s) >= 8 /\ s[1] \in {"+", "-"} /\ AllDigits(SubSeq(s, 2, 7)) /\ s[8] = "-"
          /\ ~(s[1] = "-" /\ DigitsVal(SubSeq(s, 2, 7)) = 0)
  THEN ParseIsoRest((IF s[1] = "-" THEN -1 ELSE 1) * DigitsVal(SubSeq(s, 2, 7)),
                    SubSeq(s, 9, Len(s)))
  ELSE [ok |-> FALSE, n |-> 0]

----------------------------------------------------------------------------
(* Parsers, src/src/Code.js 36..97 (and 251..313) *)

K_id == << "i", "d" >>

K_target_age == << "t", "a", "r", "g", "e", "t", "_", "a", "g", "e" >>

K_completed == << "c", "o", "m", "p", "l", "e", "t", "e", "d" >>

K_image_url == << "i", "m", "a", "g", "e", "_", "u", "r", "l" >>

K_category == << "c", "a", "t", "e", "g", "o", "r", "y" >>

K_title == << "t", "i", "t", "l", "e" >>

K_note == << "n", "o", "t", "e" >>

K_completed_at == << "c", "o", "m", "p", "l", "e", "t", "e", "d", "_", "a", "t" >>

\* Lower-case property names headerToParserMap inherits from Object.prototype.
K_constructor == << "c", "o", "n", "s", "t", "r", "u", "c", "t", "o", "r" >>

K_proto == << "_", "_", "p", "r", "o", "t", "o", "_", "_" >>

\* The longest prefix of s made of digits.
RECURSIVE DigitPrefix(_)
DigitPrefix(s) ==
  IF s # << >> /\ IsDigit(Head(s)) THEN << Head(s) >> \o DigitPrefix(Tail(s)) ELSE << >>

\* A run of 22 digits or more that is one digit from 1 to 9 and then zeros.
IsBigRun(ds) ==
  Len(ds) >= 22 /\ ds[1] # "0" /\ \A i \in 2..Len(ds) : ds[i] = "0"

\* The number of a sign and a run of digits; NaN when the run is empty.
SignedDigits(neg, ds) ==
  IF ds = << >> THEN NaN
  ELSE IF IsBigRun(ds) THEN Big((IF neg THEN << "-" >> ELSE << >>) \o << ds[1] >>, Len(ds) - 1)
  ELSE Num((IF neg THEN -1 ELSE 1) * DigitsVal(ds))

\* parseInt of a string without leading white space: an optional sign, then
\* the longest run of digits.
ParseIntOf(s) ==
  SignedDigits(s # << >> /\ Head(s) = "-",
               DigitPrefix(IF s # << >> /\ Head(s) \in {"+", "-"} THEN Tail(s) ELSE s))

\* parseInt(v, 10): the string form of v, leading white space skipped.
parseInt(v) == ParseIntOf(TrimStart(String(v)))

\* isNaN(x) of a number
isNaN(x) == x.t = "nan"

\* v ?? ""
OrEmpty(v) == IF v.t \in {"undefined", "null"} THEN Str(<< >>) ELSE v

\* safeTrim without the ?? "": String(null) is "null"
safeTrim_NoCoalesce(v) == Trim(String(v))

\* const safeTrim = (v) => String(v ?? "").trim();
safeTrim(v) == Trim(String(OrEmpty(v)))

\* isNaN(id) ? null : id
NullIfNaN(id) == IF isNaN(id) THEN Null ELSE id

\* parse.id without the isNaN test
parse_id_KeepNaN(v) == parseInt(v)

\* parse.id
parse_id(v) == NullIfNaN(parseInt(v))

\* The body of parse.target_age without the rounding down to a multiple of 10
TargetAge_NoFloor(v, ageValue, normalizedTargetAge) ==
  IF \/ v.t \in {"undefined", "null"}
     \/ isNaN(ageValue)
     \/ ageValue.n < normalizedTargetAge
     \/ ageValue.n > 100
  THEN Num(normalizedTargetAge)
  ELSE ageValue

parse_target_age_NoFloor(v, normalizedTargetAge) ==
  TargetAge_NoFloor(v, parseInt(v), normalizedTargetAge)

\* The body of parse.target_age with the upper bound written ageValue >= 100
TargetAge_Below100(v, ageValue, normalizedTargetAge) ==
  IF \/ v.t \in {"undefined", "null"}
     \/ isNaN(ageValue)
     \/ ageValue.n < normalizedTargetAge
     \/ ageValue.n >= 100
  THEN Num(normalizedTargetAge)
  ELSE Num((ageValue.n \div 10) * 10)

parse_target_age_Below100(v, normalizedTargetAge) ==
  TargetAge_Below100(v, parseInt(v), normalizedTargetAge)

\* The body of parse.target_age, ageValue being parseInt(v, 10)
TargetAge(v, ageValue, normalizedTargetAge) ==
  IF \/ v.t \in {"undefined", "null"}
     \/ isNaN(ageValue)
     \/ ageValue.t = "big"
     \/ ageValue.n < normalizedTargetAge
     \/ ageValue.n > 100
  THEN Num(normalizedTargetAge)
  ELSE Num((ageValue.n \div 10) * 10)

\* parse.target_age
parse_target_age(v, normalizedTargetAge) == TargetAge(v, parseInt(v), normalizedTargetAge)

\* s === "true" || s === "1" || s === "yes" || v === true
IsTruthyText(s, v) ==
  IF s = << "t", "r", "u", "e" >> \/ s = << "1" >> \/ s = << "y", "e", "s" >> \/ v = True THEN True ELSE False

\* parse.completed, lines 59..62, without toLowerCase
parse_completed_KeepCase(v) == IsTruthyText(safeTrim(Str(String(v))), v)

\* parse.completed, lines 59..62
parse_completed(v) == IsTruthyText(ToLowerCase(safeTrim(Str(String(v)))), v)

\* parse.completed, lines 274..278
parse_completed2(v) ==
  IF v = True \/ ToLowerCase(safeTrim(v)) \in {<< "t", "r", "u", "e" >>, << "1" >>, << "y", "e", "s" >>} THEN True ELSE False

\* /^(https?:\/\/|data:image\/)/.test(url)
UrlPattern(url) ==
  \/ StartsWith(url, << "h", "t", "t", "p", ":", "/", "/" >>)
  \/ StartsWith(url, << "h", "t", "t", "p", "s", ":", "/", "/" >>)
  \/ StartsWith(url, << "d", "a", "t", "a", ":", "i", "m", "a", "g", "e", "/" >>)

\* /^.../.test(url) ? url : ""
UrlOrEmpty(url) == IF UrlPattern(url) THEN Str(url) ELSE Str(<< >>)

\* parse.image_url without the test of the prefix
parse_image_url_AnyText(v) == Str(safeTrim(v))

\* parse.image_url
parse_image_url(v) == UrlOrEmpty(safeTrim(v))

\* parse.string
parse_string(v) == Str(safeTrim(v))

\* !isNaN(date.getTime()) ? date.toISOString() : null
IsoOrNull(date) == IF date.ok THEN Str(toISOString(date.n)) ELSE Null

\* parse.completed_at that takes Date objects only
parse_completed_at_DatesOnly(v) ==
  IF v.t = "date" THEN Str(toISOString(v.n)) ELSE Null

\* parse.completed_at
parse_completed_at(v) ==
  IF v.t = "date" THEN Str(toISOString(v.n))
  ELSE IF v.t = "str" /\ Trim(v.s) # << >> THEN IsoOrNull(DateParse(Trim(v.s)))
  ELSE Null

\* parse.default
parse_default(v) == v

\* Object(value), what headerToParserMap["constructor"] is: a fresh object for
\* undefined and null, the wrapper object of a primitive, an object itself.
ObjectOf(v) ==
  CASE v.t \in {"undefined", "null"} -> JsVal("object", 0, << >>)
    [] v.t = "bool" -> JsVal("Boolean", v.n, << >>)
    [] v.t = "num" -> JsVal("Number", v.n, << >>)
    [] v.t = "str" -> JsVal("String", 0, v.s)
    [] OTHER -> v

\* headerToParserMap[header] is truthy and no function: the object literal
\* inherits __proto__ (Object.prototype itself), so parser(value, context)
\* raises a TypeError.
NotCallable(header) == header = K_proto

\* The reduce over the headers raises for the row.
RowThrows(headers) == \E k \in 1..Len(headers) : NotCallable(headers[k])

\* headerToParserMap[header] || parse.default, applied to (value, context)
headerToParserMap(r, header, value, normalizedTargetAge) ==
  CASE header = K_id -> parse_id(value)
    [] header = K_target_age -> parse_target_age(value, normalizedTargetAge)
    [] header = K_completed ->
         (IF r = "nowISO" THEN parse_completed2(value) ELSE parse_completed(value))
    [] header = K_image_url -> parse_image_url(value)
    [] header \in {K_category, K_title, K_note} -> parse_string(value)
    [] header = K_completed_at -> parse_completed_at(value)
    [] header = K_constructor -> ObjectOf(value)
    [] OTHER -> parse_default(value)

----------------------------------------------------------------------------
(* calculateAge and the row normalizer *)

\* const BIRTH_DATE = new Date("1979-09-02T00:00:00+09:00"): calculateAge
\* reads its local calendar fields only, those of the day 1979-09-02.
BIRTH_DATE == DaysFromCivil(1979, 9, 2)

\* calculateAge that compares the months only
calculateAge_MonthOnly(birthDate, nowDate) ==
  IF getMonth(nowDate) < getMonth(birthDate)
  THEN getFullYear(nowDate) - getFullYear(birthDate) - 1
  ELSE getFullYear(nowDate) - getFullYear(birthDate)

\* calculateAge that still subtracts a year on the birthday itself
calculateAge_BirthdayLate(birthDate, nowDate) ==
  IF \/ getMonth(nowDate) < getMonth(birthDate)
     \/ (getMonth(nowDate) = getMonth(birthDate) /\ getDate(nowDate) <= getDate(birthDate))
  THEN getFullYear(nowDate) - getFullYear(birthDate) - 1
  ELSE getFullYear(nowDate) - getFullYear(birthDate)

\* calculateAge that compares the days of the month whatever the months are
calculateAge_DayOnly(birthDate, nowDate) ==
  IF getMonth(nowDate) < getMonth(birthDate) \/ getDate(nowDate) < getDate(birthDate)
  THEN getFullYear(nowDate) - getFullYear(birthDate) - 1
  ELSE getFullYear(nowDate) - getFullYear(birthDate)

\* calculateAge(birthDate, nowDate)
calculateAge(birthDate, nowDate) ==
  LET birthYear == getFullYear(birthDate)
      birthMonth == getMonth(birthDate)
      birthDay == getDate(birthDate)
      nowYear == getFullYear(nowDate)
      nowMonth == getMonth(nowDate)
      nowDay == getDate(nowDate)
      age == nowYear - birthYear
  IN IF nowMonth < birthMonth \/ (nowMonth = birthMonth /\ nowDay < birthDay)
     THEN age - 1
     ELSE age

\* Math.floor(actualAge / 10) * 10
DecadeBucket(actualAge) == (actualAge \div 10) * 10

\* An object is a function from its keys to values.
EmptyObj == [k \in {} |-> Undefined]

\* obj[key] = val
Assign(obj, key, val) ==
  [k \in (DOMAIN obj) \cup {key} |-> IF k = key THEN val ELSE obj[k]]

\* obj[key], undefined for a key the object does not have
Get(obj, key) == IF key \in DOMAIN obj THEN obj[key] ELSE Undefined

\* row[index] with the index clamped to the last cell of the row
Cell_Clamped(row, index) ==
  IF index <= Len(row) THEN row[index]
  ELSE IF row = << >> THEN Undefined ELSE row[Len(row)]

\* row[index] for a 1-based position
Cell(row, index) == IF index <= Len(row) THEN row[index] ELSE Undefined

\* Header normalization that trims and keeps the casing
NormalizeHeaders_KeepCase(headerRow) ==
  [i \in 1..Len(headerRow) |-> safeTrim(headerRow[i])]

\* headerRow.map((h) => safeTrim(h).toLowerCase())
NormalizeHeaders(headerRow) ==
  [i \in 1..Len(headerRow) |-> ToLowerCase(safeTrim(headerRow[i]))]

\* A reduce that leaves out the key of a column the row has no cell for
RECURSIVE ReduceHeaders_SkipMissing(_, _, _, _, _)
ReduceHeaders_SkipMissing(r, headers, row, nta, k) ==
  IF k = 0 THEN EmptyObj
  ELSE IF k > Len(row) THEN ReduceHeaders_SkipMissing(r, headers, row, nta, k - 1)
  ELSE Assign(ReduceHeaders_SkipMissing(r, headers, row, nta, k - 1), headers[k],
              headerToParserMap(r, headers[k], Cell(row, k), nta))

\* A reduce in which the first column of a key wins
RECURSIVE ReduceHeaders_FirstWins(_, _, _, _, _)
ReduceHeaders_FirstWins(r, headers, row, nta, k) ==
  IF k = 0 THEN EmptyObj
  ELSE IF headers[k] \in DOMAIN ReduceHeaders_FirstWins(r, headers, row, nta, k - 1)
  THEN ReduceHeaders_FirstWins(r, headers, row, nta, k - 1)
  ELSE Assign(ReduceHeaders_FirstWins(r, headers, row, nta, k - 1), headers[k],
              headerToParserMap(r, headers[k], Cell(row, k), nta))

\* normalizedHeaders.reduce((acc, header, index) => ..., {}) over the first k headers
RECURSIVE ReduceHeaders(_, _, _, _, _)
ReduceHeaders(r, headers, row, nta, k) ==
  IF k = 0 THEN EmptyObj
  ELSE Assign(ReduceHeaders(r, headers, row, nta, k - 1), headers[k],
              headerToParserMap(r, headers[k], Cell(row, k), nta))

\* completedDate.getTime() > now.getTime(); a NaN time value compares false
TimeGreater(completedDate, nowT) == completedDate.ok /\ completedDate.n > nowT

\* new Date(obj.completed_at).getTime() > now.getTime()
LaterThan(completed_at, nowT) == TimeGreater(DateParse(completed_at.s), nowT)

\* Post-processing that leaves completed_at alone when completed is false
PostProcess_KeepDate(obj, nowT) ==
  IF Truthy(Get(obj, K_completed))
  THEN IF ~Truthy(Get(obj, K_completed_at)) \/ LaterThan(Get(obj, K_completed_at), nowT)
       THEN Assign(obj, K_completed_at, Str(toISOString(nowT)))
       ELSE obj
  ELSE obj

\* Post-processing that stamps every completed row with "now"
PostProcess_AlwaysNow(obj, nowT) ==
  IF Truthy(Get(obj, K_completed))
  THEN Assign(obj, K_completed_at, Str(toISOString(nowT)))
  ELSE Assign(obj, K_completed_at, Null)

\* Post-processing, lines 126..136
PostProcess(obj, nowT) ==
  IF Truthy(Get(obj, K_completed))
  THEN IF ~Truthy(Get(obj, K_completed_at)) \/ LaterThan(Get(obj, K_completed_at), nowT)
       THEN Assign(obj, K_completed_at, Str(toISOString(nowT)))
       ELSE obj
  ELSE Assign(obj, K_completed_at, Null)

\* Post-processing, lines 348..358
PostProcess2(obj, nowISO) ==
  IF Truthy(Get(obj, K_completed))
  THEN IF ~Truthy(Get(obj, K_completed_at)) \/ StrGreater(Get(obj, K_completed_at).s, nowISO)
       THEN Assign(obj, K_completed_at, Str(nowISO))
       ELSE obj
  ELSE Assign(obj, K_completed_at, Null)

\* The cross-field pass of revision r.
PostProcessOf(r, obj, nowT) ==
  IF r = "nowISO" THEN PostProcess2(obj, toISOString(nowT)) ELSE PostProcess(obj, nowT)

\* The callback of rows.map: one data row to one record.
MapRowFn(r, headers, row, nowT, nta) ==
  PostProcessOf(r, ReduceHeaders(r, headers, row, nta, Len(headers)), nowT)

----------------------------------------------------------------------------
(* Inputs *)

\* Bounds of the model.
MaxCols == 2

MaxRows == 2

MaxTicks == 1

\* The two revisions of convertSheetDataToObjects in src/src/Code.js.
Revisions == {"getTime", "nowISO"}

\* Days the wall clock may show when a call starts: the day before the 45th
\* birthday, the 45th birthday, and the 110th birthday.
Clocks ==
  { DaysFromCivil(2024, 9, 1), DaysFromCivil(2024, 9, 2), DaysFromCivil(2089, 9, 2) }

\* All sequences over S of length at most k.
RECURSIVE SeqsUpTo(_, _)
SeqsUpTo(S, k) ==
  IF k = 0 THEN { << >> }
  ELSE LET shorter == SeqsUpTo(S, k - 1) IN
       shorter \cup { Append(q, x) : q \in { p \in shorter : Len(p) = k - 1 }, x \in S }

\* Raw cell values of every type a sheet or a caller can supply.
Cells ==
  { Undefined, Null, True, False, Num(1), Num(49), Num(130),
    Str(<< >>), Str(<< " ", "Y", "e", "s", " " >>), Str(<< "s", "i", "x", "t", "y" >>), Str(<< "2", "0", "2", "4", "-", "9", "9", "-", "9", "9" >>),
    Str(<< "2", "0", "2", "4", "-", "0", "1", "-", "1", "5", "T", "0", "0", ":", "0", "0", ":", "0", "0", ".", "0", "0", "0", "Z" >>), Str(<< " ", "2", "0", "2", "4", "-", "0", "9", "-", "0", "2", " " >>),
    Str(<< "+", "0", "1", "0", "0", "0", "0", "-", "0", "1", "-", "0", "1", "T", "0", "0", ":", "0", "0", ":", "0", "0", ".", "0", "0", "0", "Z" >>),
    DateObj(DaysFromCivil(2024, 9, 2)), DateObj(DaysFromCivil(2099, 1, 1)),
    DateObj(DaysFromCivil(10000, 1, 1)), DateObj(DaysFromCivil(-1, 12, 31)),
    InvalidDate }

\* Header cells and raw cells of the tables of every shape up to MaxCols columns.
WideHeaderCells ==
  { Str(K_completed), Str(K_completed_at), Str(K_target_age), Str(<< " ", "E", "x", "t", "r", "a", "_", "F", "i", "e", "l", "d", " " >>) }

WideCells ==
  { Null, True, Num(49),
    Str(<< "2", "0", "2", "4", "-", "0", "1", "-", "1", "5", "T", "0", "0", ":", "0", "0", ":", "0", "0", ".", "0", "0", "0", "Z" >>) }

\* Header rows holding the completed and completed_at columns.
PairHeaderRows ==
  { << Str(K_completed), Str(K_completed_at) >>,
    << Str(<< "C", "o", "m", "p", "l", "e", "t", "e", "d", "_", "A", "t" >>), Str(<< " ", "C", "O", "M", "P", "L", "E", "T", "E", "D" >>) >> }

\* Raw target_age cells.
AgeCells ==
  Cells \cup { Num(-5), Num(0), Num(20), Num(40), Num(51), Num(100), Num(101), Num(110),
               Str(<< " ", "4", "2", " " >>), Str(<< "4", "9", ".", "5" >>), Str(<< "-", "7" >>), Str(<< "+", "1", "0", "0" >>) }

\* Data rows of the tables of up to MaxRows rows.
FewRows ==
  { << True >>, << True, Str(<< >>) >>, << True, DateObj(DaysFromCivil(2099, 1, 1)) >>,
    << True, DateObj(DaysFromCivil(2024, 1, 15)) >>, << False, Null >>, << Num(130), True >> }

FewHeaderRows ==
  { << Str(K_completed), Str(K_completed_at) >>, << Str(K_target_age), Str(K_completed) >>,
    << Str(K_proto), Str(K_completed) >> }

\* Raw cells of the typed columns id, completed, image_url, category, title, note.
FieldCells ==
  Cells \cup { Num(0), Str(<< "T", "R", "U", "E" >>), Str(<< "f", "a", "l", "s", "e" >>), Str(<< "1" >>), Str(<< "0" >>), Str(<< " ", "t", "r", "u", "e", " " >>),
               Str(<< "y", "e", "s" >>), Str(<< "n", "o" >>), Str(<< "4", "2" >>), Str(<< "n", "o", "t", "-", "a", "-", "n", "u", "m", "b", "e", "r" >>), Str(<< "1", "2", "a", "b", "c" >>),
               Str(<< " ", "7" >>), Str(<< " ", "h", "t", "t", "p", "s", ":", "/", "/", "x", ".", "j", "p", "/", "a", ".", "p", "n", "g", " " >>), Str(<< "h", "t", "t", "p", ":", "/", "/", "x" >>),
               Str(<< "d", "a", "t", "a", ":", "i", "m", "a", "g", "e", "/", "p", "n", "g" >>), Str(<< "f", "t", "p", ":", "/", "/", "x" >>), Str(<< "H", "T", "T", "P", ":", "/", "/", "X" >>),
               Str(<< "x", " ", "h", "t", "t", "p", ":", "/", "/", "y" >>), Str(<< "h", "t", "t", "p", "s", ":", "/", "x" >>), Str(<< " ", " ", "a", " ", "b", " ", " " >>) }

FieldHeaderRows ==
  { << Str(k) >> : k \in {K_id, K_completed, K_image_url, K_category, K_title, K_note} }

\* Header rows with a name that Object.prototype also has, and one without.
ProtoHeaderRows ==
  { << Str(K_constructor) >>, << Str(K_proto) >>, << Str(<< " ", "C", "o", "n", "s", "t", "r", "u", "c", "t", "o", "r" >>) >>,
    << Str(K_id), Str(<< "_", "_", "P", "R", "O", "T", "O", "_", "_" >>) >>, << Str(<< "e", "x", "t", "r", "a", "_", "f", "i", "e", "l", "d" >>) >> }

\* Three-column header rows and data rows of zero to four cells.
ShortHeaderRows ==
  { << Str(K_id), Str(K_title), Str(K_image_url) >>,
    << Str(K_completed), Str(K_completed_at), Str(K_target_age) >>,
    << Str(K_completed_at), Str(K_completed), Str(K_id) >>,
    << Str(K_note), Str(K_category), Str(<< "E", "x", "t", "r", "a", "_", "F", "i", "e", "l", "d" >>) >> }

ShortRows ==
  { << >>, << Num(49) >>, << True >>, << Str(<< " ", "Y", "e", "s", " " >>) >>,
    << Num(49), Str(<< " ", "Y", "e", "s", " " >>) >>, << True, Str(<< "2", "0", "2", "4", "-", "0", "1", "-", "1", "5", "T", "0", "0", ":", "0", "0", ":", "0", "0", ".", "0", "0", "0", "Z" >>) >>,
    << Str(<< "2", "0", "2", "4", "-", "0", "1", "-", "1", "5", "T", "0", "0", ":", "0", "0", ":", "0", "0", ".", "0", "0", "0", "Z" >>), True >>, << False, Null >>,
    << Num(49), Str(<< " ", "Y", "e", "s", " " >>), Str(<< " ", "h", "t", "t", "p", "s", ":", "/", "/", "x", ".", "j", "p", "/", "a", ".", "p", "n", "g", " " >>) >>,
    << True, Null, Num(49), Str(<< "s", "i", "x", "t", "y" >>) >>,
    << Str(<< "2", "0", "2", "4", "-", "0", "1", "-", "1", "5", "T", "0", "0", ":", "0", "0", ":", "0", "0", ".", "0", "0", "0", "Z" >>), True, Num(1), True >> }

\* Header rows in which two columns normalize to one key, and their data rows.
DupHeaderRows ==
  { << Str(<< "I", "D" >>), Str(<< " ", "i", "d" >>) >>,
    << Str(<< "c", "o", "m", "p", "l", "e", "t", "e", "d" >>), Str(<< "C", "o", "m", "p", "l", "e", "t", "e", "d", " " >>) >>,
    << Str(<< "N", "o", "t", "e" >>), Str(<< "I", "t", "e", "m" >>), Str(<< "n", "o", "t", "e", " " >>), Str(<< " ", "I", "T", "E", "M" >>) >> }

DupCells == { Str(<< " ", "a", " " >>), Str(<< "b" >>), Num(7), True }

DupRows ==
  { << a, b >> : a \in DupCells, b \in DupCells }
    \cup { << Str(<< " ", "a", " " >>), Num(7), Str(<< "b" >>), True >>, << Str(<< "b" >>), True, Str(<< " ", "a", " " >>) >>, << Num(7) >> }

\* An id cell of 22 digits: the text of 10^21.
BigIdCells ==
  { Str(<< "1", "0", "0", "0", "0", "0", "0", "0", "0", "0", "0", "0", "0", "0", "0", "0", "0", "0", "0", "0", "0", "0" >>), Str(<< "-" >> \o << "1", "0", "0", "0", "0", "0", "0", "0", "0", "0", "0", "0", "0", "0", "0", "0", "0", "0", "0", "0", "0", "0" >>), Num(7) }

ArrayData(rows) == [t |-> "array", s |-> << >>, rows |-> rows]

\* Arguments that are not arrays: undefined, null, a number, an object, strings.
NonArrayData ==
  { [t |-> k, s |-> << >>, rows |-> << >>] : k \in {"undefined", "null", "num", "obj", "str"} }
    \cup { [t |-> "str", s |-> << "a", "b", "c" >>, rows |-> << >>] }

\* Tables whose data rows (at most maxRows) have cells from cells.
Tables(headerRows, dataRows, maxRows) ==
  { ArrayData(<< h >> \o rs) : h \in headerRows, rs \in SeqsUpTo(dataRows, maxRows) }

----------------------------------------------------------------------------
(* One call of convertSheetDataToObjects(data) *)

VARIABLES
  rev,                  \* the revision the call runs
  data,                 \* the argument
  clock,                \* the wall clock, what new Date() reads
  pc,                   \* "idle", "map", "done" or "threw"
  now,                  \* const now = new Date()
  normalizedHeaders,    \* const normalizedHeaders
  normalizedTargetAge,  \* const normalizedTargetAge
  result,               \* the records produced so far; the return value at "done"
  ageCall,              \* a direct call calculateAge(birthDate, nowDate)
  getCall               \* a call doGet(e): the request, the spreadsheet, the response

vars ==
  << rev, data, clock, pc, now, normalizedHeaders, normalizedTargetAge, result, ageCall, getCall >>

\* No direct call of calculateAge is under way.
NoAgeCall ==
  [pc |-> "none", birth |-> << >>, now |-> << >>, birthDate |-> 0, nowDate |-> 0, age |-> 0,
   prevNow |-> << >>, prevAge |-> 0]

\* The response no call has set yet.
NoOutput == [content |-> << >>, mimeType |-> "", nosniff |-> FALSE]

\* The spreadsheet without contents.
NoSheet == [exists |-> FALSE, lastRow |-> 0, lastCol |-> 0, values |-> << >>]

\* No call of doGet is under way.
NoGetCall ==
  [pc |-> "none", e |-> "undefined", callback |-> Undefined, sheet |-> NoSheet,
   hasSetHeader |-> FALSE, rangeReads |-> 0, normalizerArgs |-> << >>, output |-> NoOutput]

\* const [headerRow, ...rows] = data  (data is an array here)
rows == Tail(data.rows)

InitWith(inputs) ==
  /\ rev \in Revisions
  /\ data \in inputs
  /\ clock \in Clocks
  /\ pc = "idle"
  /\ now = 0
  /\ normalizedHeaders = << >>
  /\ normalizedTargetAge = 0
  /\ result = << >>
  /\ ageCall = NoAgeCall
  /\ getCall = NoGetCall

\* Lines 105..108: destructuring throws a TypeError on a value that is not
\* iterable; a string is iterable, and a non-empty one yields a one-character
\* headerRow, on which .map is not a function.
Throws1 == data.t \notin {"array", "str"} \/ (data.t = "str" /\ data.s # << >>)

ReturnsEmpty1 == (data.t = "array" /\ data.rows = << >>) \/ (data.t = "str" /\ data.s = << >>)

\* Lines 321..328
Throws2 == FALSE

ReturnsEmpty2 == data.t # "array" \/ Len(data.rows) = 0

Throws == IF rev = "nowISO" THEN Throws2 ELSE Throws1

ReturnsEmpty == IF rev = "nowISO" THEN ReturnsEmpty2 ELSE ReturnsEmpty1

\* The call fails before it reads the clock.
EnterThrow ==
  /\ pc = "idle"
  /\ Throws
  /\ pc' = "threw"
  /\ UNCHANGED << getCall, ageCall, rev, data, clock, now, normalizedHeaders, normalizedTargetAge, result >>

\* The call returns [] before it reads the clock.
EnterEmpty ==
  /\ pc = "idle"
  /\ ~Throws /\ ReturnsEmpty
  /\ pc' = "done"
  /\ result' = << >>
  /\ UNCHANGED << getCall, ageCall, rev, data, clock, now, normalizedHeaders, normalizedTargetAge >>

\* Lines 110..116 with the header row taken off the argument by data.shift()
Enter_Shift ==
  /\ pc = "idle"
  /\ ~Throws /\ ~ReturnsEmpty
  /\ normalizedHeaders' = NormalizeHeaders(Head(data.rows))
  /\ data' = [data EXCEPT !.rows = Tail(@)]
  /\ now' = clock
  /\ normalizedTargetAge' = DecadeBucket(calculateAge(BIRTH_DATE, clock))
  /\ result' = << >>
  /\ pc' = "map"
  /\ UNCHANGED << getCall, ageCall, rev, clock >>

\* Lines 110..116: headers normalized, "now" captured, the decade bucket computed.
Enter ==
  /\ pc = "idle"
  /\ ~Throws /\ ~ReturnsEmpty
  /\ normalizedHeaders' = NormalizeHeaders(Head(data.rows))
  /\ now' = clock
  /\ normalizedTargetAge' = DecadeBucket(calculateAge(BIRTH_DATE, clock))
  /\ result' = << >>
  /\ pc' = "map"
  /\ UNCHANGED << getCall, ageCall, rev, data, clock >>

\* One iteration of rows.map raises: the call ends with a TypeError.
MapRowThrow ==
  /\ pc = "map"
  /\ Len(result) < Len(rows)
  /\ RowThrows(normalizedHeaders)
  /\ pc' = "threw"
  /\ UNCHANGED << getCall, ageCall, rev, data, clock, now, normalizedHeaders, normalizedTargetAge, result >>

\* One iteration of rows.map that reads the wall clock anew for its row
MapRow_ClockPerRow ==
  /\ pc = "map"
  /\ Len(result) < Len(rows)
  /\ ~RowThrows(normalizedHeaders)
  /\ result' = Append(result,
                      MapRowFn(rev, normalizedHeaders, rows[Len(result) + 1],
                               clock, normalizedTargetAge))
  /\ UNCHANGED << getCall, ageCall, rev, data, clock, pc, now, normalizedHeaders, normalizedTargetAge >>

\* One iteration of rows.map.
MapRow ==
  /\ pc = "map"
  /\ Len(result) < Len(rows)
  /\ ~RowThrows(normalizedHeaders)
  /\ result' = Append(result,
                      MapRowFn(rev, normalizedHeaders, rows[Len(result) + 1],
                               now, normalizedTargetAge))
  /\ UNCHANGED << getCall, ageCall, rev, data, clock, pc, now, normalizedHeaders, normalizedTargetAge >>

\* rows.map is over; the array of records is returned.
Return ==
  /\ pc = "map"
  /\ Len(result) = Len(rows)
  /\ pc' = "done"
  /\ UNCHANGED << getCall, ageCall, rev, data, clock, now, normalizedHeaders, normalizedTargetAge, result >>

\* The wall clock moves on while the call runs.
Tick ==
  /\ pc = "map"
  /\ clock - now < MaxTicks
  /\ clock' = clock + 1
  /\ UNCHANGED << getCall, ageCall, rev, data, pc, now, normalizedHeaders, normalizedTargetAge, result >>

Next == EnterThrow \/ EnterEmpty \/ Enter \/ MapRow \/ MapRowThrow \/ Return \/ Tick

\* The arguments of a call: tables of every shape up to MaxCols columns with
\* at most one data row; every pair of raw cells under the completed and
\* completed_at columns; every raw target_age cell; tables of up to MaxRows
\* rows; every raw cell under each typed column; header names that
\* Object.prototype has; rows shorter and longer than a three-column header
\* row; the empty array and the arguments that are not arrays.
Inputs ==
  Tables(SeqsUpTo(WideHeaderCells, MaxCols), SeqsUpTo(WideCells, MaxCols), 1)
    \cup Tables(PairHeaderRows, SeqsUpTo(Cells, 2), 1)
    \cup Tables({ << Str(K_target_age) >> }, { << c >> : c \in AgeCells }, 1)
    \cup Tables(FewHeaderRows, FewRows, MaxRows)
    \cup Tables(FieldHeaderRows, { << c >> : c \in FieldCells }, 1)
    \cup Tables(ProtoHeaderRows, SeqsUpTo(Cells, 1), 1)
    \cup Tables(ShortHeaderRows, ShortRows, 1)
    \cup Tables(DupHeaderRows, DupRows, 1)
    \cup Tables({ << Str(K_id) >>, << Str(K_id), Str(K_title) >> }, SeqsUpTo(BigIdCells, 2), 1)
    \cup { ArrayData(<< >>) }
    \cup NonArrayData

Init == InitWith(Inputs)

Spec == Init /\ [][Next]_vars

----------------------------------------------------------------------------
(* A direct call calculateAge(birthDate, nowDate), lines 12..27 *)

\* Calendar days [y, m, d] the two Date arguments are built from: around the
\* birthday of BIRTH_DATE, around a leap day, and at the turn of a year.
AgeDays ==
  { << 1979, 9, 2 >>, << 1979, 9, 1 >>, << 1979, 9, 3 >>, << 1979, 10, 1 >>,
    << 1979, 8, 31 >>, << 1978, 12, 31 >>, << 1980, 1, 1 >>,
    << 2025, 9, 1 >>, << 2025, 9, 2 >>, << 2025, 9, 3 >>,
    << 2024, 2, 29 >>, << 2025, 2, 28 >>, << 2025, 3, 1 >>, << 2089, 9, 2 >>,
    << 1979, 12, 31 >>, << 2024, 2, 28 >>, << 2024, 3, 1 >> }

\* new Date(y, m - 1, d): the Date of the local calendar day.
DateOfDay(day) == DaysFromCivil(day[1], day[2], day[3])

InitAge ==
  /\ rev = "getTime"
  /\ data = ArrayData(<< >>)
  /\ clock = 0
  /\ pc = "none"
  /\ now = 0
  /\ normalizedHeaders = << >>
  /\ normalizedTargetAge = 0
  /\ result = << >>
  /\ getCall = NoGetCall
  /\ \E b \in AgeDays, n \in AgeDays :
       ageCall = [pc |-> "call", birth |-> b, now |-> n,
                  birthDate |-> DateOfDay(b), nowDate |-> DateOfDay(n), age |-> 0,
                  prevNow |-> << >>, prevAge |-> 0]

\* The call runs to its return statement.
CalculateAge ==
  /\ ageCall.pc = "call"
  /\ ageCall' = [ageCall EXCEPT !.pc = "returned",
                                !.age = calculateAge(ageCall.birthDate, ageCall.nowDate)]
  /\ UNCHANGED << getCall, rev, data, clock, pc, now, normalizedHeaders, normalizedTargetAge, result >>

\* After a call has returned, calculateAge is called with the same birthDate
\* and another nowDate; the day and the age of the call before are kept.
CallAgain ==
  /\ ageCall.pc = "returned"
  /\ \E n \in AgeDays :
       ageCall' = [ageCall EXCEPT !.pc = "call", !.now = n, !.nowDate = DateOfDay(n), !.age = 0,
                                  !.prevNow = ageCall.now, !.prevAge = ageCall.age]
  /\ UNCHANGED << getCall, rev, data, clock, pc, now, normalizedHeaders, normalizedTargetAge, result >>

NextAge == CalculateAge \/ CallAgain

SpecAge == InitAge /\ [][NextAge]_vars

----------------------------------------------------------------------------
(* One call of doGet(e) *)

\* The characters of an identifier: [A-Za-z_$] and [0-9A-Za-z_$]
IdentStart(c) ==
  \/ \E i \in 1..Len(UpperCase) : UpperCase[i] = c \/ LowerOfUpper[i] = c
  \/ c \in {"_", "$"}

IdentPart(c) == IdentStart(c) \/ IsDigit(c)

\* What is left of s after its longest prefix matching [0-9A-Za-z_$]*
RECURSIVE DropIdentPart(_)
DropIdentPart(s) ==
  IF s # << >> /\ IdentPart(Head(s)) THEN DropIdentPart(Tail(s)) ELSE s

\* The regular expression with digits allowed at the start of a segment
RECURSIVE MatchesPath_DigitFirst(_)
MatchesPath_DigitFirst(s) ==
  /\ s # << >>
  /\ IdentPart(Head(s))
  /\ \/ DropIdentPart(Tail(s)) = << >>
     \/ /\ Head(DropIdentPart(Tail(s))) = "."
        /\ MatchesPath_DigitFirst(Tail(DropIdentPart(Tail(s))))

\* /^[A-Za-z_$][0-9A-Za-z_$]*(\.[A-Za-z_$][0-9A-Za-z_$]*)*$/.test(s)
RECURSIVE MatchesPath(_)
MatchesPath(s) ==
  /\ s # << >>
  /\ IdentStart(Head(s))
  /\ \/ DropIdentPart(Tail(s)) = << >>
     \/ /\ Head(DropIdentPart(Tail(s))) = "."
        /\ MatchesPath(Tail(DropIdentPart(Tail(s))))

\* isValidCallback(callback), lines 165..173
isValidCallback(callback) ==
  IF ~Truthy(callback) \/ callback.t # "str" THEN FALSE ELSE MatchesPath(callback.s)

\* The characters of a string as JSON.stringify writes them between the
\* quotes: the quote and the backslash escaped (no text of the model holds a
\* control character).
RECURSIVE JsonEscape(_)
JsonEscape(s) ==
  IF s = << >> THEN << >>
  ELSE (IF Head(s) \in {"\"", "\\"} THEN << "\\", Head(s) >> ELSE << Head(s) >>)
         \o JsonEscape(Tail(s))

JsonQuote(s) == << "\"" >> \o JsonEscape(s) \o << "\"" >>

\* JSON.stringify of the value of a property; undefined has no text (the
\* property is left out).  A Date is written by toJSON, a wrapper object as
\* its primitive, a number that is no finite number as null.
JsonValue(v) ==
  CASE v.t \in {"null", "nan", "baddate"} -> << "n", "u", "l", "l" >>
    [] v.t \in {"bool", "Boolean"} -> (IF v.n = 1 THEN << "t", "r", "u", "e" >> ELSE << "f", "a", "l", "s", "e" >>)
    [] v.t \in {"num", "Number"} -> IntToString(v.n)
    [] v.t = "big" -> String(v)
    [] v.t \in {"str", "String"} -> JsonQuote(v.s)
    [] v.t = "date" -> JsonQuote(toISOString(v.n))
    [] v.t = "object" -> << "{", "}" >>
    [] OTHER -> << >>

\* The texts of a sequence joined by commas.
RECURSIVE JoinComma(_)
JoinComma(texts) ==
  IF texts = << >> THEN << >>
  ELSE IF Len(texts) = 1 THEN texts[1]
  ELSE texts[1] \o << "," >> \o JoinComma(Tail(texts))

\* The keys of a record in the order they were created: the headers in the
\* order of their first column, then completed_at when no header gave it.
\* (No header of the model is the text of an array index, which JavaScript
\* would enumerate first.)
KeysInOrder(headers) ==
  LET first == SelectSeq([k \in 1..Len(headers) |-> k],
                         LAMBDA k : \A j \in 1..(k - 1) : headers[j] # headers[k])
      named == [j \in 1..Len(first) |-> headers[first[j]]]
  IN IF \E k \in 1..Len(headers) : headers[k] = K_completed_at
     THEN named
     ELSE Append(named, K_completed_at)

\* JSON.stringify of one record: its properties in order, undefined ones left out.
JsonObject(rec, keys) ==
  LET shown == SelectSeq(keys, LAMBDA k : Get(rec, k).t # "undefined")
  IN << "{" >>
       \o JoinComma([j \in 1..Len(shown) |->
                       JsonQuote(shown[j]) \o << ":" >> \o JsonValue(rec[shown[j]])])
       \o << "}" >>

\* JSON.stringify(result)
JsonArray(records, headers) ==
  << "[" >>
    \o JoinComma([i \in 1..Len(records) |-> JsonObject(records[i], KeysInOrder(headers))])
    \o << "]" >>

\* JSON.stringify(errorObject), lines 149..155
JsonError(message, statusCode) ==
  << "{", "\"", "e", "r", "r", "o", "r", "\"", ":", "{", "\"", "c", "o", "d", "e", "\"", ":" >> \o IntToString(statusCode) \o << ",", "\"", "m", "e", "s", "s", "a", "g", "e", "\"", ":" >> \o JsonQuote(message)
    \o << "}", "}" >>

\* The MIME type of a response that is no JSONP: MimeType.JSON at lines 156
\* and 209, MimeType.TEXT at lines 379 and 433.
JsonMimeType(r) == IF r = "nowISO" THEN "TEXT" ELSE "JSON"

\* createErrorResponse(message, statusCode): lines 148..158 end with
\* .setHeader("X-Content-Type-Options", "nosniff"), lines 369..381 do not.
createErrorResponse(r, message, statusCode) ==
  [content |-> JsonError(message, statusCode), mimeType |-> JsonMimeType(r),
   nosniff |-> r # "nowISO"]

\* The condition under which the range is fetched, with "or" for "and"
ShouldFetch_Either(lastRow, lastCol) == lastRow > 0 \/ lastCol > 0

\* if (lastRow > 0 && lastCol > 0)
ShouldFetch(lastRow, lastCol) == lastRow > 0 /\ lastCol > 0

----------------------------------------------------------------------------

\* The TextOutput has no setHeader ("setHeader is also not reliably available
\* on TextOutput", line 378), so the call at line 158 raises a TypeError.
createErrorResponseThrows(r, hasSetHeader) == r # "nowISO" /\ ~hasSetHeader

\* The spreadsheet: whether it has a sheet named "list", what getLastRow and
\* getLastColumn answer and what getRange(1, 1, lastRow, lastCol).getValues()
\* gives.
SheetOf(values, lastCol) ==
  [exists |-> TRUE, lastRow |-> Len(values), lastCol |-> lastCol, values |-> values]

Sheets ==
  { NoSheet,
    SheetOf(<< >>, 0),
    SheetOf(<< << >> >>, 0),
    SheetOf(<< << Str(<< "i", "d" >>), Str(<< "t", "i", "t", "l", "e" >>) >> >>, 2),
    SheetOf(<< << Str(<< "I", "D" >>), Str(<< "T", "i", "t", "l", "e", " " >>), Str(<< "c", "o", "m", "p", "l", "e", "t", "e", "d" >>) >>,
               << Num(1), Str(<< " ", "a", " ", "\"", "b", "\"", " " >>), False >> >>, 3),
    SheetOf(<< << Str(<< "n", "o", "t", "e" >>), Str(<< "e", "x", "t", "r", "a" >>) >>,
               << Str(<< "x" >>), Str(<< "y" >>) >>,
               << Str(<< >>), Num(5) >> >>, 2),
    SheetOf(<< << Str(<< "c", "o", "m", "p", "l", "e", "t", "e", "d" >>) >>, << True >> >>, 1),
    SheetOf(<< << Str(K_proto) >>, << Num(1) >> >>, 1) }

\* The values of the callback parameter of a request.
Callbacks ==
  { Undefined, Null, Num(5), Str(<< >>), Str(<< "m", "y", "C", "a", "l", "l", "b", "a", "c", "k" >>), Str(<< "a", ".", "b" >>), Str(<< "$", "x", ".", "_", "y", "1", ".", "Z" >>),
    Str(<< "_" >>), Str(<< "i", "n", "v", "a", "l", "i", "d", "-", "c", "a", "l", "l", "b", "a", "c", "k", ";" >>), Str(<< "1", "a", "b", "c" >>), Str(<< "a", ".", "1", "b" >>), Str(<< "a", ".", ".", "b" >>),
    Str(<< ".", "a" >>), Str(<< "a", "." >>), Str(<< "a", " ", "b" >>), Str(<< "a", "l", "e", "r", "t", "(", "1", ")" >>), Str(<< "." >>) }

\* The argument e: undefined (a run from the editor), an object without
\* parameter, or a request, whose parameter may hold a callback.
Requests ==
  { [e |-> "undefined", callback |-> Undefined], [e |-> "noParameter", callback |-> Undefined] }
    \cup { [e |-> "request", callback |-> c] : c \in Callbacks }

InitGet ==
  /\ rev \in Revisions
  /\ clock \in Clocks
  /\ data = ArrayData(<< >>)
  /\ pc = "none"
  /\ now = 0
  /\ normalizedHeaders = << >>
  /\ normalizedTargetAge = 0
  /\ result = << >>
  /\ ageCall = NoAgeCall
  /\ \E sh \in Sheets, rq \in Requests, h \in BOOLEAN :
       getCall = [pc |-> "call", e |-> rq.e, callback |-> rq.callback, sheet |-> sh,
                  hasSetHeader |-> h, rangeReads |-> 0, normalizerArgs |-> << >>,
                  output |-> NoOutput]

\* Lines 181..186: there is no sheet "list"; the error response is returned,
\* or building it raises.
SheetMissing ==
  /\ getCall.pc = "call"
  /\ ~getCall.sheet.exists
  /\ getCall' =
       IF createErrorResponseThrows(rev, getCall.hasSetHeader)
       THEN [getCall EXCEPT !.pc = "threw"]
       ELSE [getCall EXCEPT !.pc = "returned",
                            !.output = createErrorResponse(rev, << "S", "h", "e", "e", "t", " ", "'", "l", "i", "s", "t", "'", " ", "n", "o", "t", " ", "f", "o", "u", "n", "d", "." >>, 404)]
  /\ UNCHANGED << rev, data, clock, pc, now, normalizedHeaders, normalizedTargetAge, result, ageCall >>

\* let values = []; if (...) values = list.getRange(...).getValues()
FetchedValues(sheet) ==
  IF ShouldFetch(sheet.lastRow, sheet.lastCol) THEN sheet.values ELSE << >>

RangeReads(sheet) == IF ShouldFetch(sheet.lastRow, sheet.lastCol) THEN 1 ELSE 0

\* Lines 188..198: the sheet is read and convertSheetDataToObjects(values) is called.
ReadSheet ==
  /\ getCall.pc = "call"
  /\ getCall.sheet.exists
  /\ getCall' = [getCall EXCEPT !.pc = "converting",
                                !.rangeReads = RangeReads(getCall.sheet),
                                !.normalizerArgs = << FetchedValues(getCall.sheet) >>]
  /\ data' = ArrayData(FetchedValues(getCall.sheet))
  /\ pc' = "idle"
  /\ UNCHANGED << rev, clock, now, normalizedHeaders, normalizedTargetAge, result, ageCall >>

\* e.parameter.callback (line 200) raises a TypeError when e or e.parameter
\* is undefined; e?.parameter?.callback (line 424) is undefined then.
CallbackThrows(r, e) == r # "nowISO" /\ e # "request"

\* convertSheetDataToObjects has returned, reading the callback raises.
CallbackThrow ==
  /\ getCall.pc = "converting"
  /\ pc = "done"
  /\ CallbackThrows(rev, getCall.e)
  /\ getCall' = [getCall EXCEPT !.pc = "threw"]
  /\ UNCHANGED << rev, data, clock, pc, now, normalizedHeaders, normalizedTargetAge, result, ageCall >>

\* The response of lines 202..213 (426..435), jsonText being JSON.stringify(result).
ResponseOf(r, callback, jsonText) ==
  IF isValidCallback(callback)
  THEN [content |-> callback.s \o << "(" >> \o jsonText \o << ")", ";" >>,
        mimeType |-> "JAVASCRIPT", nosniff |-> FALSE]
  ELSE [content |-> jsonText, mimeType |-> JsonMimeType(r), nosniff |-> FALSE]

\* convertSheetDataToObjects has returned; the response is built and returned.
Respond ==
  /\ getCall.pc = "converting"
  /\ pc = "done"
  /\ ~CallbackThrows(rev, getCall.e)
  /\ getCall' = [getCall EXCEPT !.pc = "returned",
                                !.output = ResponseOf(rev, getCall.callback,
                                                      JsonArray(result, normalizedHeaders))]
  /\ UNCHANGED << rev, data, clock, pc, now, normalizedHeaders, normalizedTargetAge, result, ageCall >>

\* convertSheetDataToObjects has raised; doGet catches nothing.
Propagate ==
  /\ getCall.pc = "converting"
  /\ pc = "threw"
  /\ getCall' = [getCall EXCEPT !.pc = "threw"]
  /\ UNCHANGED << rev, data, clock, pc, now, normalizedHeaders, normalizedTargetAge, result, ageCall >>

NextGet ==
  \/ SheetMissing \/ ReadSheet
  \/ EnterEmpty \/ Enter \/ MapRow \/ MapRowThrow \/ Return \/ Tick
  \/ Respond \/ CallbackThrow \/ Propagate

SpecGet == InitGet /\ [][NextGet]_vars

----------------------------------------------------------------------------

(* Vocabulary of the properties *)

\* The last column whose normalized header is key; 0 when there is none.
LastCol(key) ==
  IF \E k \in 1..Len(normalizedHeaders) : normalizedHeaders[k] = key
  THEN CHOOSE k \in 1..Len(normalizedHeaders) :
         /\ normalizedHeaders[k] = key
         /\ \A j \in (k + 1)..Len(normalizedHeaders) : normalizedHeaders[j] # key
  ELSE 0

\* The raw cell of data row i under the column of key.
RawCell(i, key) == IF LastCol(key) = 0 THEN Undefined ELSE Cell(rows[i], LastCol(key))

\* The instant a raw cell denotes, by the calendar: a valid Date object, or one
\* of the timestamp strings of the inputs; ok = FALSE for every other cell.
RawInstant(v) ==
  CASE v.t = "date" -> [ok |-> TRUE, n |-> v.n]
    [] v = Str(<< "2", "0", "2", "4", "-", "0", "1", "-", "1", "5", "T", "0", "0", ":", "0", "0", ":", "0", "0", ".", "0", "0", "0", "Z" >>) -> [ok |-> TRUE, n |-> DaysFromCivil(2024, 1, 15)]
    [] v = Str(<< " ", "2", "0", "2", "4", "-", "0", "9", "-", "0", "2", " " >>) -> [ok |-> TRUE, n |-> DaysFromCivil(2024, 9, 2)]
    [] v = Str(<< "+", "0", "1", "0", "0", "0", "0", "-", "0", "1", "-", "0", "1", "T", "0", "0", ":", "0", "0", ":", "0", "0", ".", "0", "0", "0", "Z" >>) -> [ok |-> TRUE, n |-> DaysFromCivil(10000, 1, 1)]
    [] OTHER -> [ok |-> FALSE, n |-> 0]

\* The instant an ISO-8601 string of a record denotes.
IsoInstant(v) == IF v.t = "str" THEN DateParse(v.s) ELSE [ok |-> FALSE, n |-> 0]

\* A non-null, non-future ISO-8601 string.
NonFutureIso(v) == v.t = "str" /\ IsoInstant(v).ok /\ IsoInstant(v).n <= now

\* The ISO-8601 string of the captured "now".
NowIso == Str(toISOString(now))

----------------------------------------------------------------------------
(* C1..C10 *)

\* C1: a record whose completed value is not true has completed_at null,
\* whatever the raw completed_at cell held.
C1_NotCompletedHasNullDate ==
  \A i \in 1..Len(result) :
    Get(result[i], K_completed) # True =>
      K_completed_at \in DOMAIN result[i] /\ result[i][K_completed_at] = Null

\* A record that is not completed although its raw completed_at cell is a
\* valid timestamp.
C1_Witness ==
  \E i \in 1..Len(result) :
    /\ Get(result[i], K_completed) = False
    /\ RawInstant(RawCell(i, K_completed_at)).ok
    /\ result[i][K_completed_at] = Null

\* C2: a non-null completed_at of a record denotes an instant that is never
\* later than the "now" the call captured.
C2_CompletedAtNotAfterNow ==
  \A i \in 1..Len(result) :
    LET ca == Get(result[i], K_completed_at) IN
    ca.t \notin {"null", "undefined"} => NonFutureIso(ca)

\* C3: completed is true exactly when completed_at is a non-null, non-future
\* ISO-8601 string, and false exactly when completed_at is null, under every
\* header row.
C3_CompletedIffDate ==
  \A i \in 1..Len(result) :
    LET c == Get(result[i], K_completed)
        ca == Get(result[i], K_completed_at)
    IN /\ (c = True) <=> NonFutureIso(ca)
       /\ (c = False) <=> (ca = Null)

\* C4: no rows, only a header row, or an argument that is no table: the call
\* returns the empty sequence and never raises.
C4_EmptyInputGivesEmpty ==
  (pc # "idle" /\ (data.t # "array" \/ Len(data.rows) <= 1)) =>
    pc \in {"map", "done"} /\ result = << >>

C6_TargetAgeInRange ==
  \A i \in 1..Len(result) :
    K_target_age \in DOMAIN result[i] =>
      LET ta == result[i][K_target_age] IN ta.t = "num" /\ ta.n >= 0 /\ ta.n <= 100

\* The integer a raw target_age cell parses to, by hand: a number is itself, a
\* string gives its leading signed integer; ok = FALSE for every other cell.
RawInteger(v) ==
  CASE v.t = "num" -> [ok |-> TRUE, k |-> v.n]
    [] v = Str(<< " ", "4", "2", " " >>) -> [ok |-> TRUE, k |-> 42]
    [] v = Str(<< "4", "9", ".", "5" >>) -> [ok |-> TRUE, k |-> 49]
    [] v = Str(<< "-", "7" >>) -> [ok |-> TRUE, k |-> -7]
    [] v = Str(<< "+", "1", "0", "0" >>) -> [ok |-> TRUE, k |-> 100]
    [] v = Str(<< "2", "0", "2", "4", "-", "9", "9", "-", "9", "9" >>) -> [ok |-> TRUE, k |-> 2024]
    [] v = Str(<< "2", "0", "2", "4", "-", "0", "1", "-", "1", "5", "T", "0", "0", ":", "0", "0", ":", "0", "0", ".", "0", "0", "0", "Z" >>) -> [ok |-> TRUE, k |-> 2024]
    [] v = Str(<< " ", "2", "0", "2", "4", "-", "0", "9", "-", "0", "2", " " >>) -> [ok |-> TRUE, k |-> 2024]
    [] v = Str(<< "+", "0", "1", "0", "0", "0", "0", "-", "0", "1", "-", "0", "1", "T", "0", "0", ":", "0", "0", ":", "0", "0", ".", "0", "0", "0", "Z" >>) -> [ok |-> TRUE, k |-> 10000]
    [] OTHER -> [ok |-> FALSE, k |-> 0]

\* C7: the target_age parser answers normalizedTargetAge for a cell that is
\* missing or null, parses to no integer, or parses below normalizedTargetAge
\* or above 100; otherwise the integer rounded down to a multiple of 10.
C7_TargetAgeParser ==
  \A i \in 1..Len(result) :
    K_target_age \in DOMAIN result[i] =>
      LET v == RawCell(i, K_target_age)
          p == RawInteger(v)
      IN result[i][K_target_age] =
           IF \/ v.t \in {"undefined", "null"}
              \/ ~p.ok
              \/ p.k < normalizedTargetAge
              \/ p.k > 100
           THEN Num(normalizedTargetAge)
           ELSE Num(p.k - (p.k % 10))

\* With the bucket at 40: 100 stays 100.
C7_Witness ==
  \E i \in 1..Len(result) :
    /\ normalizedTargetAge = 40
    /\ RawCell(i, K_target_age) = Num(100)
    /\ Get(result[i], K_target_age) = Num(100)

\* C8: a completed row whose completed_at cell is missing, empty, no valid
\* timestamp, or a timestamp strictly after "now" gets the ISO string of "now".
C8_CompletedDefaultsToNow ==
  \A i \in 1..Len(result) :
    LET t == RawInstant(RawCell(i, K_completed_at)) IN
    (Get(result[i], K_completed) = True /\ (~t.ok \/ t.n > now)) =>
      Get(result[i], K_completed_at) = NowIso

\* C9: a completed row whose completed_at cell is a valid timestamp not after
\* "now" keeps that instant, as its ISO string.
C9_PastDateKept ==
  \A i \in 1..Len(result) :
    LET t == RawInstant(RawCell(i, K_completed_at))
        ca == Get(result[i], K_completed_at)
    IN (Get(result[i], K_completed) = True /\ t.ok /\ t.n <= now) =>
         /\ ca.t = "str"
         /\ IsoInstant(ca).ok
         /\ IsoInstant(ca).n = t.n
         /\ (t.n # now => ca # NowIso)

\* A completed row dated strictly before "now" that keeps its date.
C9_Witness ==
  \E i \in 1..Len(result) :
    /\ Get(result[i], K_completed) = True
    /\ RawCell(i, K_completed_at) = Str(<< "2", "0", "2", "4", "-", "0", "1", "-", "1", "5", "T", "0", "0", ":", "0", "0", ":", "0", "0", ".", "0", "0", "0", "Z" >>)
    /\ result[i][K_completed_at] = Str(<< "2", "0", "2", "4", "-", "0", "1", "-", "1", "5", "T", "0", "0", ":", "0", "0", ":", "0", "0", ".", "0", "0", "0", "Z" >>)

\* C10: one "now" and one decade bucket serve every row of a call: equal raw
\* rows give equal records, and all defaulted completed_at values are the
\* same string, however the wall clock moves during the call.
C10_OneNowPerCall ==
  \A i, j \in 1..Len(result) :
    /\ rows[i] = rows[j] => result[i] = result[j]
    /\ ( /\ Get(result[i], K_completed) = True
         /\ Get(result[j], K_completed) = True
         /\ ~RawInstant(RawCell(i, K_completed_at)).ok
         /\ ~RawInstant(RawCell(j, K_completed_at)).ok )
       => Get(result[i], K_completed_at) = Get(result[j], K_completed_at)
    /\ ( /\ K_target_age \in DOMAIN result[i]
         /\ RawCell(i, K_target_age).t = "undefined"
         /\ RawCell(j, K_target_age).t = "undefined" )
       => result[i][K_target_age] = result[j][K_target_age]

\* Two completed rows without a date, the second one normalized after the
\* wall clock has moved past the captured "now".
C10_Witness ==
  /\ Len(result) >= 2
  /\ clock # now
  /\ Get(result[1], K_completed) = True
  /\ Get(result[2], K_completed) = True
  /\ RawCell(1, K_completed_at).t = "undefined"
  /\ RawCell(2, K_completed_at).t = "undefined"
  /\ Get(result[2], K_completed_at) = NowIso

----------------------------------------------------------------------------
(* C11..C20 *)

\* The argument is a table: an array whose first element is the header row.
HasHeaderRow == data.t = "array" /\ Len(data.rows) >= 1

\* C11: a table of a header row and N data rows gives exactly N records, the
\* i-th one being the normalization of the i-th data row.
C11_OneRecordPerRow ==
  HasHeaderRow =>
    /\ pc # "threw"
    /\ Len(result) <= Len(rows)
    /\ pc = "done" => Len(result) = Len(rows)
    /\ pc \in {"map", "done"} =>
         \A i \in 1..Len(result) :
           result[i] = MapRowFn(rev, NormalizeHeaders(Head(data.rows)), rows[i], now,
                                DecadeBucket(calculateAge(BIRTH_DATE, now)))

\* Upper case of one character, by the table of the 26 letters.
UpperChar(c) ==
  IF \E i \in 1..Len(LowerOfUpper) : LowerOfUpper[i] = c
  THEN UpperCase[CHOOSE i \in 1..Len(LowerOfUpper) : LowerOfUpper[i] = c]
  ELSE c

\* A header name in capitals, and one put between blanks.
Shouted(h) == IF h.t = "str" THEN Str([i \in 1..Len(h.s) |-> UpperChar(h.s[i])]) ELSE h

Padded(h) == IF h.t = "str" THEN Str(<< " ", " " >> \o h.s \o << " " >>) ELSE h

\* The header row that differs from headerRow in the casing and in the
\* surrounding white space of every name.
HeaderVariant(headerRow) == [k \in 1..Len(headerRow) |-> Padded(Shouted(headerRow[k]))]

\* The table with headerRow in place of its header row gives, under the same
\* "now", what the call has produced so far.
SameRecordsUnder(headerRow) ==
  /\ RowThrows(NormalizeHeaders(headerRow)) <=> RowThrows(normalizedHeaders)
  /\ \A i \in 1..Len(result) :
       result[i] = MapRowFn(rev, NormalizeHeaders(headerRow), rows[i], now,
                            normalizedTargetAge)

\* C12: header names are trimmed and lowercased before they become keys and
\* choose the parser: a table whose header names differ only in casing or
\* surrounding white space gives identical records under the same "now".
C12_HeaderCaseAndSpace ==
  (HasHeaderRow /\ pc \in {"done", "threw"}) =>
    SameRecordsUnder(HeaderVariant(Head(data.rows)))

\* A returned record under header names written in capitals and with blanks:
\* its keys are the trimmed lower-case names and completed went to its parser.
C12_Witness ==
  /\ pc = "done"
  /\ HasHeaderRow
  /\ Head(data.rows) = << Str(<< "C", "o", "m", "p", "l", "e", "t", "e", "d", "_", "A", "t" >>), Str(<< " ", "C", "O", "M", "P", "L", "E", "T", "E", "D" >>) >>
  /\ Len(result) = 1
  /\ DOMAIN result[1] = {K_completed, K_completed_at}
  /\ rows[1] = << Null, Str(<< " ", "Y", "e", "s", " " >>) >>
  /\ result[1][K_completed] = True

\* The raw cells whose string form, trimmed and lowercased, is "true", "1" or
\* "yes", and the boolean true, listed by hand.
CompletedCells ==
  { True, Num(1), Str(<< " ", "Y", "e", "s", " " >>), Str(<< "T", "R", "U", "E" >>), Str(<< "1" >>), Str(<< " ", "t", "r", "u", "e", " " >>), Str(<< "y", "e", "s" >>) }

\* C13: completed is the boolean true exactly when the raw cell is the boolean
\* true or its string form, trimmed and lowercased, is "true", "1" or "yes";
\* for every other cell, a missing one included, it is the boolean false.
C13_CompletedParser ==
  \A i \in 1..Len(result) :
    K_completed \in DOMAIN result[i] =>
      result[i][K_completed] =
        IF RawCell(i, K_completed) \in CompletedCells THEN True ELSE False

\* The string "TRUE" counts as true.
C13_Witness ==
  \E i \in 1..Len(result) :
    /\ K_completed \in DOMAIN result[i]
    /\ RawCell(i, K_completed) = Str(<< "T", "R", "U", "E" >>)
    /\ result[i][K_completed] = True

\* The image_url a raw cell must give, listed by hand: the text without its
\* surrounding blanks for the three cells that hold a URL, "" for the others.
ExpectedImageUrl(v) ==
  CASE v = Str(<< " ", "h", "t", "t", "p", "s", ":", "/", "/", "x", ".", "j", "p", "/", "a", ".", "p", "n", "g", " " >>) -> Str(<< "h", "t", "t", "p", "s", ":", "/", "/", "x", ".", "j", "p", "/", "a", ".", "p", "n", "g" >>)
    [] v = Str(<< "h", "t", "t", "p", ":", "/", "/", "x" >>) -> Str(<< "h", "t", "t", "p", ":", "/", "/", "x" >>)
    [] v = Str(<< "d", "a", "t", "a", ":", "i", "m", "a", "g", "e", "/", "p", "n", "g" >>) -> Str(<< "d", "a", "t", "a", ":", "i", "m", "a", "g", "e", "/", "p", "n", "g" >>)
    [] OTHER -> Str(<< >>)

\* The three prefixes, written out character by character.
HasUrlPrefix(s) ==
  \/ Len(s) >= 7 /\ [i \in 1..7 |-> s[i]] = << "h", "t", "t", "p", ":", "/", "/" >>
  \/ Len(s) >= 8 /\ [i \in 1..8 |-> s[i]] = << "h", "t", "t", "p", "s", ":", "/", "/" >>
  \/ Len(s) >= 11 /\ [i \in 1..11 |-> s[i]] = << "d", "a", "t", "a", ":", "i", "m", "a", "g", "e", "/" >>

\* C14: image_url is the empty string or a string that starts with http://,
\* https:// or data:image/; when it is not empty it is the trimmed string form
\* of the cell; a null or missing cell gives the empty string.
C14_ImageUrl ==
  \A i \in 1..Len(result) :
    K_image_url \in DOMAIN result[i] =>
      LET u == result[i][K_image_url] IN
      /\ u.t = "str"
      /\ u.s = << >> \/ HasUrlPrefix(u.s)
      /\ u = ExpectedImageUrl(RawCell(i, K_image_url))
      /\ RawCell(i, K_image_url).t \in {"null", "undefined"} => u.s = << >>

\* A URL between blanks is kept without them.
C14_Witness ==
  \E i \in 1..Len(result) :
    /\ RawCell(i, K_image_url) = Str(<< " ", "h", "t", "t", "p", "s", ":", "/", "/", "x", ".", "j", "p", "/", "a", ".", "p", "n", "g", " " >>)
    /\ Get(result[i], K_image_url) = Str(<< "h", "t", "t", "p", "s", ":", "/", "/", "x", ".", "j", "p", "/", "a", ".", "p", "n", "g" >>)

\* The id a raw cell must give, by hand: a number is itself, a string gives
\* its leading signed integer, every other cell null.
ExpectedId(v) ==
  CASE v = Str(<< "4", "2" >>) -> Num(42)
    [] v = Str(<< "1", "0", "0", "0", "0", "0", "0", "0", "0", "0", "0", "0", "0", "0", "0", "0", "0", "0", "0", "0", "0", "0" >>) -> Big(<< "1" >>, 21)
    [] v = Str(<< "-" >> \o << "1", "0", "0", "0", "0", "0", "0", "0", "0", "0", "0", "0", "0", "0", "0", "0", "0", "0", "0", "0", "0", "0" >>) -> Big(<< "-", "1" >>, 21)
    [] v = Str(<< "1", "2", "a", "b", "c" >>) -> Num(12)
    [] v = Str(<< " ", "7" >>) -> Num(7)
    [] v = Str(<< "1" >>) -> Num(1)
    [] v = Str(<< "0" >>) -> Num(0)
    [] v = Str(<< "n", "o", "t", "-", "a", "-", "n", "u", "m", "b", "e", "r" >>) -> Null
    [] OTHER -> IF RawInteger(v).ok THEN Num(RawInteger(v).k) ELSE Null

\* C15: id is an integer or null, never NaN and never a string: the integer
\* parsed from the cell ("42" gives 42), null for a cell that is unparsable,
\* null or missing ("not-a-number" gives null).
C15_IdParser ==
  \A i \in 1..Len(result) :
    K_id \in DOMAIN result[i] =>
      /\ result[i][K_id].t \in {"num", "big", "null"}
      /\ result[i][K_id] = ExpectedId(RawCell(i, K_id))

\* The cell "not-a-number" gives the id null.
C15_Witness ==
  \E i \in 1..Len(result) :
    /\ RawCell(i, K_id) = Str(<< "n", "o", "t", "-", "a", "-", "n", "u", "m", "b", "e", "r" >>)
    /\ Get(result[i], K_id) = Null

\* The keys of the plain string fields.
StringKeys == {K_category, K_title, K_note}

\* s is t between two runs of blanks, and t neither starts nor ends with one.
IsTrimOf(t, s) ==
  /\ t = << >> \/ (t[1] # " " /\ t[Len(t)] # " ")
  /\ \E a \in 0..Len(s) :
       /\ a + Len(t) <= Len(s)
       /\ \A j \in 1..Len(s) :
            IF j > a /\ j <= a + Len(t) THEN s[j] = t[j - a] ELSE s[j] = " "

\* The string form of the cells that are no strings, by hand; Date.toString
\* of 2024-09-02T00:00:00.000Z is written out for Asia/Tokyo.
StringFormIs(v, t) ==
  CASE v.t = "str" -> IsTrimOf(t, v.s)
    [] v.t \in {"null", "undefined"} -> t = << >>
    [] v = True -> t = << "t", "r", "u", "e" >>
    [] v = False -> t = << "f", "a", "l", "s", "e" >>
    [] v = Num(0) -> t = << "0" >>
    [] v = Num(1) -> t = << "1" >>
    [] v = Num(49) -> t = << "4", "9" >>
    [] v = Num(130) -> t = << "1", "3", "0" >>
    [] v = InvalidDate -> t = << "I", "n", "v", "a", "l", "i", "d", " ", "D", "a", "t", "e" >>
    [] v = DateObj(DaysFromCivil(2024, 9, 2)) ->
         t = << "M", "o", "n", " ", "S", "e", "p", " ", "0", "2", " ", "2", "0", "2", "4", " ", "0", "9", ":", "0", "0", ":", "0", "0", " ", "G", "M", "T", "+", "0", "9", "0", "0", " ", "(", "J", "a", "p", "a", "n", " ", "S", "t", "a", "n", "d", "a", "r", "d", " ", "T", "i", "m", "e", ")" >>
    [] OTHER -> t # << >> /\ t[1] # " " /\ t[Len(t)] # " "

\* C16: category, title and note are always strings: the empty string for a
\* null or missing cell, otherwise the string form of the cell without its
\* leading and trailing white space.
C16_StringFields ==
  \A i \in 1..Len(result) : \A key \in StringKeys :
    key \in DOMAIN result[i] =>
      /\ result[i][key].t = "str"
      /\ StringFormIs(RawCell(i, key), result[i][key].s)

\* A title between blanks loses them and keeps the blank inside.
C16_Witness ==
  \E i \in 1..Len(result) :
    /\ RawCell(i, K_title) = Str(<< " ", " ", "a", " ", "b", " ", " " >>)
    /\ Get(result[i], K_title) = Str(<< "a", " ", "b" >>)

\* The eight names with a parser of their own.
TypedKeys ==
  {K_id, K_target_age, K_completed, K_image_url, K_category, K_title, K_note, K_completed_at}

\* C17: under every header whose normalized name is none of the eight typed
\* names, whatever that name is, each data row gets a record whose value under
\* the name is the raw cell unchanged, undefined for a missing cell.
C17_Passthrough ==
  (HasHeaderRow /\ pc # "idle") =>
    \A k \in 1..Len(normalizedHeaders) :
      normalizedHeaders[k] \notin TypedKeys =>
        /\ pc # "threw"
        /\ \A i \in 1..Len(result) :
             /\ normalizedHeaders[k] \in DOMAIN result[i]
             /\ result[i][normalizedHeaders[k]] = RawCell(i, normalizedHeaders[k])

\* The key's cell is missing from data row i: its column lies beyond the row.
MissingCell(i, key) == LastCol(key) > Len(rows[i])

\* The row cut to the length of the header row, or filled up to it with
\* cells that are undefined.
FitRow(row, n) == [k \in 1..n |-> IF k <= Len(row) THEN row[k] ELSE Undefined]

\* Every field of record i whose cell is missing from the row has its parser's
\* default, completed_at having the default dflt.
MissingFieldsDefault(i, dflt) ==
  /\ MissingCell(i, K_id) => result[i][K_id] = Null
  /\ \A key \in StringKeys : MissingCell(i, key) => result[i][key] = Str(<< >>)
  /\ MissingCell(i, K_image_url) => result[i][K_image_url] = Str(<< >>)
  /\ MissingCell(i, K_completed) => result[i][K_completed] = False
  /\ MissingCell(i, K_completed_at) => result[i][K_completed_at] = dflt
  /\ MissingCell(i, K_target_age) =>
       result[i][K_target_age] = Num((calculateAge(BIRTH_DATE, now) \div 10) * 10)

\* Record i is the record of the row cut or filled to the header's length,
\* and has no key but the normalized header names and completed_at.
OnlyHeaderCells(i) ==
  /\ result[i] = MapRowFn(rev, normalizedHeaders, FitRow(rows[i], Len(normalizedHeaders)),
                          now, normalizedTargetAge)
  /\ DOMAIN result[i] =
       { normalizedHeaders[k] : k \in 1..Len(normalizedHeaders) } \cup {K_completed_at}

\* C18 as stated: a row shorter than the header row gives every missing field
\* its default, completed_at null among them; cells beyond the header length
\* neither appear in the record nor influence it.
C18_ShortRowDefaults ==
  \A i \in 1..Len(result) :
    /\ MissingFieldsDefault(i, Null)
    /\ OnlyHeaderCells(i)

\* C18 amended: as stated, but a missing completed_at cell gives null only in
\* a record whose completed is not true; in a completed record it gives the
\* ISO string of "now".
C18_ShortRowDefaultsNowIfCompleted ==
  \A i \in 1..Len(result) :
    /\ MissingFieldsDefault(i, IF Get(result[i], K_completed) = True THEN NowIso ELSE Null)
    /\ OnlyHeaderCells(i)

\* A row of one cell under three headers: completed is true, the missing
\* completed_at is "now" and the missing target_age the decade bucket.
C18_Witness ==
  \E i \in 1..Len(result) :
    /\ normalizedHeaders = << K_completed, K_completed_at, K_target_age >>
    /\ rows[i] = << True >>
    /\ result[i][K_completed_at] = NowIso
    /\ result[i][K_target_age] = Num(normalizedTargetAge)

\* The calendar day a comes before the calendar day b within a year.
MonthDayPrecedes(a, b) == a[2] < b[2] \/ (a[2] = b[2] /\ a[3] < b[3])

\* The calendar day a is the day b or a later one.
OnOrAfter(a, b) ==
  \/ a[1] > b[1]
  \/ a[1] = b[1] /\ a[2] > b[2]
  \/ a[1] = b[1] /\ a[2] = b[2] /\ a[3] >= b[3]

\* C19: calculateAge is the difference of the years, less one exactly when
\* the month and day of nowDate come before those of birthDate; one less the
\* day before the birthday, the difference on the birthday and the day after.
C19_AgeByCalendar ==
  ageCall.pc = "returned" =>
    ageCall.age = (ageCall.now[1] - ageCall.birth[1])
                    - (IF MonthDayPrecedes(ageCall.now, ageCall.birth) THEN 1 ELSE 0)

\* Born 1979-09-02: 45 on 2025-09-01.
C19_Witness ==
  /\ ageCall.pc = "returned"
  /\ ageCall.birth = << 1979, 9, 2 >>
  /\ ageCall.now = << 2025, 9, 1 >>
  /\ ageCall.age = 45

\* C20: calculateAge returns an integer; it is negative only when birthDate
\* is later than nowDate, and at least 0 whenever the calendar day of nowDate
\* is the one of birthDate or a later one.
C20_AgeSign ==
  ageCall.pc = "returned" =>
    /\ ageCall.age \in Int
    /\ ageCall.age < 0 => ageCall.birthDate > ageCall.nowDate
    /\ OnOrAfter(ageCall.now, ageCall.birth) => ageCall.age >= 0

\* With birthDate the day after nowDate the age is -1.
C20_Witness ==
  /\ ageCall.pc = "returned"
  /\ ageCall.birth = << 1979, 9, 2 >>
  /\ ageCall.now = << 1979, 9, 1 >>
  /\ ageCall.age = -1

----------------------------------------------------------------------------
(* C21..C30 *)

\* Record i holds the documented default in every typed field whose raw cell
\* is malformed: null for an id that is no integer, the decade bucket for a
\* target_age that is no integer, false for a completed that is no truthy
\* text, "" for an image_url that is no URL, null for the completed_at of a
\* record that is not completed.
MalformedCellsDefault(i) ==
  /\ (K_id \in DOMAIN result[i] /\ ExpectedId(RawCell(i, K_id)) = Null)
       => result[i][K_id] = Null
  /\ (K_target_age \in DOMAIN result[i] /\ ~RawInteger(RawCell(i, K_target_age)).ok)
       => result[i][K_target_age] = Num(normalizedTargetAge)
  /\ (K_completed \in DOMAIN result[i] /\ RawCell(i, K_completed) \notin CompletedCells)
       => result[i][K_completed] = False
  /\ (K_image_url \in DOMAIN result[i]
        /\ ExpectedImageUrl(RawCell(i, K_image_url)) = Str(<< >>))
       => result[i][K_image_url] = Str(<< >>)
  /\ Get(result[i], K_completed) # True => Get(result[i], K_completed_at) = Null

\* C21: under a header row of strings, with data rows of strings, numbers,
\* booleans, dates, null or missing cells, the call completes without raising
\* and every malformed cell is replaced by its field's default.
C21_NeverRaises ==
  HasHeaderRow =>
    /\ pc # "threw"
    /\ \A i \in 1..Len(result) : MalformedCellsDefault(i)

\* The data row that holds, under each header, the value record rec has
\* under that header's key.
RowOfRecord(rec) == [k \in 1..Len(normalizedHeaders) |-> Get(rec, normalizedHeaders[k])]

\* The record of normalizing rec again, under the same headers and "now".
Renormalized(rec) ==
  MapRowFn(rev, normalizedHeaders, RowOfRecord(rec), now, normalizedTargetAge)

\* Two records agree on completed and completed_at.
SamePair(a, b) ==
  /\ Get(a, K_completed) = Get(b, K_completed)
  /\ Get(a, K_completed_at) = Get(b, K_completed_at)

\* C24: normalizing a normalized record again, its completed and completed_at
\* values fed back as a data row under the same headers and the same "now",
\* gives the same completed / completed_at pair.
C24_PairIdempotent ==
  \A i \in 1..Len(result) : SamePair(Renormalized(result[i]), result[i])

\* A completed record dated before "now": its ISO string is fed back.
C24_Witness ==
  \E i \in 1..Len(result) :
    /\ pc = "done"
    /\ normalizedHeaders = << K_completed, K_completed_at >>
    /\ result[i][K_completed] = True
    /\ result[i][K_completed_at] = Str(<< "2", "0", "2", "4", "-", "0", "1", "-", "1", "5", "T", "0", "0", ":", "0", "0", ":", "0", "0", ".", "0", "0", "0", "Z" >>)
    /\ now = DaysFromCivil(2024, 9, 2)

\* C25: the call has no effect on its argument: at every step the table has
\* the rows, in the order and with the cells, it had before the call.
C25_ArgumentUnchanged == [][data' = data]_vars

\* A call that has returned two records from a table that still holds its
\* header row and both data rows.
C25_Witness ==
  /\ pc = "done"
  /\ HasHeaderRow
  /\ Len(result) = 2
  /\ Len(data.rows) = 3
  /\ Head(data.rows) = << Str(K_completed), Str(K_completed_at) >>

\* The set of the normalized header names.
HeaderKeys == { normalizedHeaders[k] : k \in 1..Len(normalizedHeaders) }

\* C26: the keys of every returned record are exactly the normalized header
\* names: no key that no header normalizes to, and no header's key missing.
C26_KeysAreHeaders ==
  \A i \in 1..Len(result) : DOMAIN result[i] = HeaderKeys

\* C26 as the code has it: the keys of every returned record are the
\* normalized header names together with completed_at, which the cross-field
\* pass always leaves set; no other key is added and no header's key is missing.
C26_KeysAreHeadersAndCompletedAt ==
  \A i \in 1..Len(result) : DOMAIN result[i] = HeaderKeys \cup {K_completed_at}

\* A call over the one header "id" has returned a record whose keys are id
\* and completed_at.
C26_Witness ==
  /\ pc = "done"
  /\ Len(result) = 1
  /\ HeaderKeys = {K_id}
  /\ DOMAIN result[1] = {K_id, K_completed_at}
  /\ result[1][K_completed_at] = Null

\* The columns no later column shadows: those that are the last of their key.
KeptCols ==
  SelectSeq([k \in 1..Len(normalizedHeaders) |-> k],
            LAMBDA k : \A j \in (k + 1)..Len(normalizedHeaders) :
                         normalizedHeaders[j] # normalizedHeaders[k])

KeptHeaders == [j \in 1..Len(KeptCols) |-> normalizedHeaders[KeptCols[j]]]

KeptRow(row) == [j \in 1..Len(KeptCols) |-> Cell(row, KeptCols[j])]

\* More than one column normalizes to key.
Duplicated(key) ==
  \E j, k \in 1..Len(normalizedHeaders) :
    j # k /\ normalizedHeaders[j] = key /\ normalizedHeaders[k] = key

\* C27: when several columns normalize to one key, every record has one entry
\* under the key and its value comes from the rightmost of the columns: the
\* record is the one the table without the earlier columns gives, a duplicated
\* typed key holds the parsed rightmost cell and a duplicated passthrough key
\* the rightmost cell itself.
C27_LastWriteWins ==
  \A i \in 1..Len(result) :
    /\ result[i] = MapRowFn(rev, KeptHeaders, KeptRow(rows[i]), now, normalizedTargetAge)
    /\ \A key \in HeaderKeys : Duplicated(key) =>
         /\ key \in StringKeys => StringFormIs(RawCell(i, key), result[i][key].s)
         /\ key = K_id => result[i][key] = ExpectedId(RawCell(i, key))
         /\ key = K_completed =>
              result[i][key] = (IF RawCell(i, key) \in CompletedCells THEN True ELSE False)
         /\ key \notin TypedKeys \cup {K_constructor, K_proto} =>
              result[i][key] = RawCell(i, key)

\* Under the headers "Note", "Item", "note ", " ITEM" the row
\* [" a ", 7, "b", true] has given note "b" and item true.
C27_Witness ==
  /\ pc = "done"
  /\ Len(result) = 1
  /\ normalizedHeaders = << K_note, << "i", "t", "e", "m" >>, K_note, << "i", "t", "e", "m" >> >>
  /\ rows[1] = << Str(<< " ", "a", " " >>), Num(7), Str(<< "b" >>), True >>
  /\ result[1][K_note] = Str(<< "b" >>)
  /\ result[1][<< "i", "t", "e", "m" >>] = True

\* C30: normalizing is idempotent on whole records: the table built from the
\* normalized headers and a returned record, normalized again under the same
\* "now", gives the same record, key by key.
C30_RecordIdempotent ==
  \A i \in 1..Len(result) : Renormalized(result[i]) = result[i]

\* The calendar day b is the day after the calendar day a.
DayAfter(a, b) == DateOfDay(b) = DateOfDay(a) + 1

\* C29: for one birthDate calculateAge never decreases as the calendar day of
\* nowDate advances, and from one day to the next it grows by at most 1.
C29_AgeMonotone ==
  (ageCall.pc = "returned" /\ ageCall.prevNow # << >>) =>
    /\ OnOrAfter(ageCall.now, ageCall.prevNow) => ageCall.age >= ageCall.prevAge
    /\ DayAfter(ageCall.prevNow, ageCall.now) => ageCall.age - ageCall.prevAge \in {0, 1}

\* Born 1979-09-02: 45 on 2025-09-01 and 46 the day after.
C29_Witness ==
  /\ ageCall.pc = "returned"
  /\ ageCall.birth = << 1979, 9, 2 >>
  /\ ageCall.prevNow = << 2025, 9, 1 >>
  /\ ageCall.prevAge = 45
  /\ ageCall.now = << 2025, 9, 2 >>
  /\ ageCall.age = 46

\* The call of doGet is over: it has returned a response or raised.
GetOver == getCall.pc \in {"returned", "threw"}

\* C22: when the spreadsheet has no sheet "list", doGet returns the error
\* payload {error: {code: 404, message: "Sheet 'list' not found."}}, reads no
\* cell range and does not call the row normalizer.
C22_MissingSheet ==
  (GetOver /\ ~getCall.sheet.exists) =>
    /\ getCall.pc = "returned"
    /\ getCall.output.content = << "{", "\"", "e", "r", "r", "o", "r", "\"", ":", "{", "\"", "c", "o", "d", "e", "\"", ":", "4", "0", "4", ",", "\"", "m", "e", "s", "s", "a", "g", "e", "\"", ":", "\"", "S", "h", "e", "e", "t", " ", "'", "l", "i", "s", "t", "'", " ", "n", "o", "t", " ", "f", "o", "u", "n", "d", ".", "\"", "}", "}" >>
    /\ getCall.rangeReads = 0
    /\ getCall.normalizerArgs = << >>
    /\ pc = "none"

\* The callback parameter as the claim describes a valid one: a non-empty
\* string of segments separated by dots, each of letters, digits, _ and $,
\* none empty and none starting with a digit.
IsDottedIdentifier(v) ==
  /\ v.t = "str"
  /\ v.s # << >>
  /\ \A i \in 1..Len(v.s) :
       \/ v.s[i] \in {"_", "$", "."}
       \/ IsDigit(v.s[i])
       \/ \E j \in 1..26 : v.s[i] = UpperCase[j] \/ v.s[i] = LowerOfUpper[j]
  /\ v.s[1] # "." /\ v.s[Len(v.s)] # "."
  /\ ~IsDigit(v.s[1])
  /\ \A i \in 1..(Len(v.s) - 1) : v.s[i] = "." => (v.s[i + 1] # "." /\ ~IsDigit(v.s[i + 1]))

\* The JSON text of the records of the sheet that was read, written by hand.
PlainBody ==
  LET values == getCall.normalizerArgs[1] IN
  CASE Len(values) <= 1 -> << "[", "]" >>
    [] values[2] = << Num(1), Str(<< " ", "a", " ", "\"", "b", "\"", " " >>), False >> ->
         << "[", "{", "\"", "i", "d", "\"", ":", "1", ",", "\"", "t", "i", "t", "l", "e", "\"", ":", "\"", "a", " ", "\\", "\"", "b", "\\", "\"", "\"", ",", "\"", "c", "o", "m", "p", "l", "e", "t", "e", "d", "\"", ":", "f", "a", "l", "s", "e", ",", "\"", "c", "o", "m", "p", "l", "e", "t", "e", "d", "_", "a", "t", "\"", ":", "n", "u", "l", "l", "}", "]" >>
    [] values[2] = << Str(<< "x" >>), Str(<< "y" >>) >> ->
         << "[", "{", "\"", "n", "o", "t", "e", "\"", ":", "\"", "x", "\"", ",", "\"", "e", "x", "t", "r", "a", "\"", ":", "\"", "y", "\"", ",", "\"", "c", "o", "m", "p", "l", "e", "t", "e", "d", "_", "a", "t", "\"", ":", "n", "u", "l", "l", "}", ",", "{", "\"", "n", "o", "t", "e", "\"", ":", "\"", "\"", ",", "\"", "e", "x", "t", "r", "a", "\"", ":", "5", ",", "\"", "c", "o", "m", "p", "l", "e", "t", "e", "d", "_", "a", "t", "\"", ":", "n", "u", "l", "l", "}", "]" >>
    [] values[2] = << True >> ->
         << "[", "{", "\"", "c", "o", "m", "p", "l", "e", "t", "e", "d", "\"", ":", "t", "r", "u", "e", ",", "\"", "c", "o", "m", "p", "l", "e", "t", "e", "d", "_", "a", "t", "\"", ":", "\"" >> \o NowIso.s \o << "\"", "}", "]" >>

\* C23: the response is <callback>(<json>); exactly when the callback
\* parameter is a dotted identifier; for every other callback value (absent,
\* empty, no string, other characters, an empty segment) the body is the plain
\* JSON text, the one a request without callback gets.  A request is answered
\* unless the normalizer raised.
C23_JsonpOnlyForIdentifiers ==
  /\ (getCall.pc = "returned" /\ getCall.sheet.exists) =>
       getCall.output.content =
         IF IsDottedIdentifier(getCall.callback)
         THEN getCall.callback.s \o << "(" >> \o PlainBody \o << ")", ";" >>
         ELSE PlainBody
  /\ (getCall.pc = "threw" /\ getCall.sheet.exists /\ getCall.e = "request") => pc = "threw"

\* The request with callback "a.b" got the records wrapped in a.b( ... );
C23_Witness ==
  /\ getCall.pc = "returned"
  /\ getCall.callback = Str(<< "a", ".", "b" >>)
  /\ getCall.output.content =
       << "a", ".", "b", "(", "[", "{", "\"", "i", "d", "\"", ":", "1", ",", "\"", "t", "i", "t", "l", "e", "\"", ":", "\"", "a", " ", "\\", "\"", "b", "\\", "\"", "\"", ",", "\"", "c", "o", "m", "p", "l", "e", "t", "e", "d", "\"", ":", "f", "a", "l", "s", "e", ",", "\"", "c", "o", "m", "p", "l", "e", "t", "e", "d", "_", "a", "t", "\"", ":", "n", "u", "l", "l", "}", "]", ")", ";" >>
  /\ getCall.output.mimeType = "JAVASCRIPT"

\* The response carries the JSON text []: plainly, or inside the call of a
\* valid callback.
AnswersEmptyArray ==
  getCall.output.content =
    IF IsDottedIdentifier(getCall.callback)
    THEN getCall.callback.s \o << "(", "[", "]", ")", ";" >>
    ELSE << "[", "]" >>

\* C28: when the sheet "list" exists and its last row or last column is 0,
\* doGet reads no cell range, calls the normalizer once, with an empty table,
\* and answers []; a sheet holding only the header row is also answered [].
C28_EmptySheet ==
  (GetOver /\ getCall.sheet.exists) =>
    /\ (getCall.sheet.lastRow = 0 \/ getCall.sheet.lastCol = 0) =>
         /\ getCall.rangeReads = 0
         /\ getCall.normalizerArgs = << << >> >>
         /\ getCall.e = "request" => getCall.pc = "returned"
         /\ getCall.pc = "returned" => AnswersEmptyArray
    /\ (getCall.sheet.lastRow = 1 /\ getCall.sheet.lastCol > 0) =>
         /\ getCall.normalizerArgs = << getCall.sheet.values >>
         /\ getCall.e = "request" => getCall.pc = "returned"
         /\ getCall.pc = "returned" => AnswersEmptyArray

\* A sheet with one row and no column was not read, the normalizer got the
\* empty table and the request without callback the body [].
C28_Witness ==
  /\ getCall.pc = "returned"
  /\ getCall.sheet = SheetOf(<< << >> >>, 0)
  /\ getCall.callback = Undefined
  /\ getCall.rangeReads = 0
  /\ getCall.normalizerArgs = << << >> >>
  /\ getCall.output.content = << "[", "]" >>

====
